---- MODULE Spec2Model ----
(***************************************************************************)
(* tslox: a tree-walk interpreter for Lox.                                 *)
(*                                                                         *)
(* The model follows the pipeline of Runner.run: Scanner.scanTokens,       *)
(* Parser.parse / Parser.parseRepl, Resolver.resolve and                   *)
(* Interpreter.interpret, driven by runFile (script mode) or by the line   *)
(* handler of runPrompt (REPL mode).  Every stage is a function of its     *)
(* input and of the objects that live across calls (the error reporter,    *)
(* the interpreter's environments and side-table, the resolver's scope     *)
(* stack), so every stage is an operator, and one action applies it.       *)
(*                                                                         *)
(* A JavaScript exception is a result record whose err (or exc) field is   *)
(* not NoError; the operators thread it outwards exactly as the try/catch  *)
(* structure of the code does.  A number is a fraction in lowest terms     *)
(* (the denominator 0 stands for Infinity, -Infinity and NaN); rounding    *)
(* and the negative zero of IEEE 754 are not modelled.                     *)
(***************************************************************************)
EXTENDS Integers, Sequences, FiniteSets, TLC

(***************************************************************************)
(* Values shared by all stages                                             *)
(***************************************************************************)

\* LoxObject: null, boolean, number, string (types.ts, LoxObject)
Nil == [t |-> "nil"]
Bool(b) == [t |-> "bool", v |-> b]
Num(n) == [t |-> "num", n |-> n, d |-> 1]
\* the number n / d in lowest terms
Number(n, d) ==
    LET RECURSIVE gcd(_, _)
        gcd(a, b) == IF b = 0 THEN a ELSE gcd(b, a % b)
        abs(x) == IF x < 0 THEN -x ELSE x
        g == gcd(abs(n), abs(d))
    IN IF d = 0
       THEN [t |-> "num", n |-> IF n > 0 THEN 1 ELSE IF n < 0 THEN -1 ELSE 0, d |-> 0]
       ELSE [t |-> "num", n |-> (IF d < 0 THEN -1 ELSE 1) * (n \div g), d |-> abs(d) \div g]
Str(s) == [t |-> "str", v |-> s]
\* the JavaScript value undefined (reading a missing key of a Record)
Undefined == [t |-> "undefined"]

\* A Record is an object literal {}: besides its own keys it has the
\* properties inherited from Object.prototype, which the operator `in` sees
\* and which indexing returns (a host function).  The __proto__ accessors
\* are left out.
ObjectPrototype ==
    {"constructor", "hasOwnProperty", "isPrototypeOf", "propertyIsEnumerable",
     "toLocaleString", "toString", "valueOf"}
Inherited(key) == [t |-> "host", name |-> key]
\* key in object
In(key, object) == key \in DOMAIN object \/ key \in ObjectPrototype
\* object[key]: undefined when the key is missing
Lookup(object, key) ==
    IF key \in DOMAIN object THEN object[key]
    ELSE IF key \in ObjectPrototype THEN Inherited(key)
    ELSE Undefined

\* error objects (error.ts)
NoError == [name |-> "none"]
SyntaxError(message, line, where) ==
    [name |-> "SyntaxError", message |-> message, line |-> line, where |-> where]
ResolvingError(message, line) ==
    [name |-> "ResolvingError", message |-> message, line |-> line, where |-> ""]
RuntimeError(message, token) ==
    [name |-> "RuntimeError", message |-> message, token |-> token]

(***************************************************************************)
(* Scanner (scanner.ts)                                                    *)
(***************************************************************************)

Token(type, lexeme, literal, line) ==
    [type |-> type, lexeme |-> lexeme, literal |-> literal, line |-> line]

keywords ==
    [w \in {"and", "class", "else", "false", "for", "fun", "if", "nil", "or",
            "print", "return", "super", "this", "true", "var", "while"} |->
        CASE w = "and" -> "And"
          [] w = "class" -> "Class"
          [] w = "else" -> "Else"
          [] w = "false" -> "False"
          [] w = "for" -> "For"
          [] w = "fun" -> "Fun"
          [] w = "if" -> "If"
          [] w = "nil" -> "Nil"
          [] w = "or" -> "Or"
          [] w = "print" -> "Print"
          [] w = "return" -> "Return"
          [] w = "super" -> "Super"
          [] w = "this" -> "This"
          [] w = "true" -> "True"
          [] w = "var" -> "Var"
          [] w = "while" -> "While"]

DigitValue(c) ==
    CASE c = "0" -> 0 [] c = "1" -> 1 [] c = "2" -> 2 [] c = "3" -> 3
      [] c = "4" -> 4 [] c = "5" -> 5 [] c = "6" -> 6 [] c = "7" -> 7
      [] c = "8" -> 8 [] c = "9" -> 9

Scanner_new(source) ==
    [source |-> source, tokens |-> <<>>, start |-> 0, current |-> 0, line |-> 1]

\* String.prototype.charAt: the empty string outside the text
charAt(source, i) ==
    IF i >= 0 /\ i < Len(source) THEN SubSeq(source, i + 1, i + 1) ELSE ""

\* String.prototype.substring(a, b), for 0 <= a
substring(source, a, b) ==
    IF a >= b \/ a >= Len(source) THEN ""
    ELSE SubSeq(source, a + 1, IF b > Len(source) THEN Len(source) ELSE b)

Scanner_isAtEnd(s) == s.current >= Len(s.source)

Scanner_isDigit(c) == c \in {"0", "1", "2", "3", "4", "5", "6", "7", "8", "9"}

Scanner_isAlpha(c) ==
    c \in {"a", "b", "c", "d", "e", "f", "g", "h", "i", "j", "k", "l", "m", "n", "o",
           "p", "q", "r", "s", "t", "u", "v", "w", "x", "y", "z",
           "A", "B", "C", "D", "E", "F", "G", "H", "I", "J", "K", "L", "M", "N", "O",
           "P", "Q", "R", "S", "T", "U", "V", "W", "X", "Y", "Z", "_"}

Scanner_isAlphaNumeric(c) == Scanner_isAlpha(c) \/ Scanner_isDigit(c)

\* advance returns charAt(current) and increments current
Scanner_advance(s) == [s EXCEPT !.current = @ + 1]

Scanner_addToken(s, type, literal) ==
    [s EXCEPT !.tokens =
        Append(@, Token(type, substring(s.source, s.start, s.current), literal, s.line))]

\* match(expected) is Scanner_matches; when it holds current moves on
Scanner_matches(s, expected) ==
    ~Scanner_isAtEnd(s) /\ charAt(s.source, s.current) = expected

Scanner_peek(s) == IF Scanner_isAtEnd(s) THEN "\\0" ELSE charAt(s.source, s.current)

Scanner_peekNext(s) ==
    IF s.current + 1 >= Len(s.source) THEN "\\0" ELSE charAt(s.source, s.current + 1)

\* one or two character tokens: addToken(match('=') ? two : one)
Scanner_oneOrTwo(s, two, one) ==
    IF Scanner_matches(s, "=") THEN Scanner_addToken(Scanner_advance(s), two, Nil)
    ELSE Scanner_addToken(s, one, Nil)

\* the loop of a line comment
RECURSIVE Scanner_comment(_)
Scanner_comment(s) ==
    IF Scanner_peek(s) # "\n" /\ ~Scanner_isAtEnd(s)
    THEN Scanner_comment(Scanner_advance(s)) ELSE s

\* string(): the loop runs up to the closing quote, counting lines
Scanner_string(s) ==
    LET RECURSIVE loop(_)
        loop(t) ==
            IF Scanner_peek(t) # "\"" /\ ~Scanner_isAtEnd(t)
            THEN loop(Scanner_advance(IF Scanner_peek(t) = "\n"
                                      THEN [t EXCEPT !.line = @ + 1] ELSE t))
            ELSE t
        s1 == loop(s)
    IN
    IF Scanner_isAtEnd(s1)
    THEN [s |-> s1, err |-> SyntaxError("Unterminated string", s1.line, "")]
    ELSE LET s2 == Scanner_advance(s1)
             value == substring(s2.source, s2.start + 1, s2.current - 1)
         IN [s |-> Scanner_addToken(s2, "String", Str(value)), err |-> NoError]

\* parseFloat of  digits  or  digits '.' digits : the digits are
\* source[a+1 .. dot] and source[dot+2 .. b]
parseFloat(source, a, dot, b) ==
    LET RECURSIVE value(_, _), power(_)
        value(i, j) ==
            IF i >= j THEN 0
            ELSE value(i, j - 1) * 10 + DigitValue(charAt(source, j - 1))
        power(k) == IF k <= 0 THEN 1 ELSE 10 * power(k - 1)
    IN IF dot < b
       THEN Number(value(a, dot) * power(b - dot - 1) + value(dot + 1, b),
                   power(b - dot - 1))
       ELSE Num(value(a, dot))

Scanner_number(s) ==
    LET RECURSIVE digits(_)
        digits(t) == IF Scanner_isDigit(Scanner_peek(t)) THEN digits(Scanner_advance(t))
                     ELSE t
        s1 == digits(s)
        hasFraction == Scanner_peek(s1) = "." /\ Scanner_isDigit(Scanner_peekNext(s1))
        s2 == IF hasFraction THEN digits(Scanner_advance(s1)) ELSE s1
        value == parseFloat(s2.source, s2.start, s1.current, s2.current)
    IN Scanner_addToken(s2, "Number", value)

Scanner_identifier(s) ==
    LET RECURSIVE loop(_)
        loop(t) == IF Scanner_isAlphaNumeric(Scanner_peek(t)) THEN loop(Scanner_advance(t))
                   ELSE t
        s1 == loop(s)
        text == substring(s1.source, s1.start, s1.current)
    IN IF In(text, keywords)
       THEN Scanner_addToken(s1, IF text \in DOMAIN keywords THEN keywords[text]
                                 ELSE "function " \o text, Nil)
       ELSE Scanner_addToken(s1, "Identifier", Nil)

Scanner_scanToken(s0) ==
    LET ok(s1) == [s |-> s1, err |-> NoError]
        switch(c, s) ==
         CASE c = "(" -> ok(Scanner_addToken(s, "LeftParen", Nil))
           [] c = ")" -> ok(Scanner_addToken(s, "RightParen", Nil))
           [] c = "{" -> ok(Scanner_addToken(s, "LeftBrace", Nil))
           [] c = "}" -> ok(Scanner_addToken(s, "RightBrace", Nil))
           [] c = "," -> ok(Scanner_addToken(s, "Comma", Nil))
           [] c = "." -> ok(Scanner_addToken(s, "Dot", Nil))
           [] c = "-" -> ok(Scanner_addToken(s, "Minus", Nil))
           [] c = "+" -> ok(Scanner_addToken(s, "Plus", Nil))
           [] c = ";" -> ok(Scanner_addToken(s, "Semicolon", Nil))
           [] c = "*" -> ok(Scanner_addToken(s, "Star", Nil))
           [] c = "!" -> ok(Scanner_oneOrTwo(s, "BangEqual", "Bang"))
           [] c = "=" -> ok(Scanner_oneOrTwo(s, "EqualEqual", "Equal"))
           [] c = "<" -> ok(Scanner_oneOrTwo(s, "LessEqual", "Less"))
           [] c = ">" -> ok(Scanner_oneOrTwo(s, "GreaterEqual", "Greater"))
           [] c = "/" -> IF Scanner_matches(s, "/")
                         THEN ok(Scanner_comment(Scanner_advance(s)))
                         ELSE ok(Scanner_addToken(s, "Slash", Nil))
           [] c \in {" ", "\r", "\t"} -> ok(s)
           [] c = "\n" -> ok([s EXCEPT !.line = @ + 1])
           [] c = "\"" -> Scanner_string(s)
           [] OTHER ->
                IF Scanner_isDigit(c) THEN ok(Scanner_number(s))
                ELSE IF Scanner_isAlpha(c) THEN ok(Scanner_identifier(s))
                ELSE [s |-> s,
                      err |-> SyntaxError("Unexpected character: '" \o c \o "'", s.line, "")]
    IN switch(charAt(s0.source, s0.current), Scanner_advance(s0))

\* scanTokens(): an exception of scanToken leaves the loop and the method;
\* tokens is what is returned (nothing is when err is set).  The while loop
\* is run in rounds of 1, 2, 4, ... iterations, which keeps the nesting of
\* the evaluation logarithmic in the length of the source.
Scanner_scanTokens(source) ==
    LET left(r) == r.err # NoError \/ r.done
        iteration(r) ==
            IF Scanner_isAtEnd(r.s)
            THEN [s |-> [r.s EXCEPT !.tokens = Append(@, Token("EOF", "", Nil, r.s.line))],
                  err |-> NoError, done |-> TRUE]
            ELSE Scanner_scanToken([r.s EXCEPT !.start = r.s.current])
                 @@ [done |-> FALSE]
        RECURSIVE round(_, _), loop(_, _)
        again(half, k) == IF left(half) THEN half ELSE round(half, k)
        round(r, k) ==
            IF left(r) THEN r
            ELSE IF k = 0 THEN iteration(r)
            ELSE again(round(r, k - 1), k - 1)
        longer(q, k) == IF left(q) THEN q ELSE loop(q, k)
        loop(r, k) == longer(round(r, k), k + 1)
        result(r) == [tokens |-> r.s.tokens, err |-> r.err, scanner |-> r.s]
    IN result(loop([s |-> Scanner_new(source), err |-> NoError, done |-> FALSE], 0))

(***************************************************************************)
(* Error reporter (error.ts)                                               *)
(***************************************************************************)

\* the errorReporter singleton; log is what report has written so far
ErrorReporter_new ==
    [hadCliError |-> FALSE, hadSyntaxError |-> FALSE, hadRuntimeError |-> FALSE,
     log |-> <<>>]

IsSyntaxError(error) == error.name \in {"SyntaxError", "ResolvingError"}

ErrorReporter_report(rep, error) ==
    LET logged == [rep EXCEPT !.log = Append(@, error)] IN
    IF error.name = "RuntimeError" THEN [logged EXCEPT !.hadRuntimeError = TRUE]
    ELSE IF IsSyntaxError(error) THEN [logged EXCEPT !.hadSyntaxError = TRUE]
    ELSE [logged EXCEPT !.hadCliError = TRUE]

(***************************************************************************)
(* Syntax tree (ast.ts).  A node that the interpreter's side-table can     *)
(* hold as a key carries an id, standing for the identity of the object.   *)
(***************************************************************************)

Null == [type |-> "Null"]
BinaryExpr(left, operator, right) ==
    [type |-> "Binary", left |-> left, operator |-> operator, right |-> right]
GroupingExpr(expression) == [type |-> "Grouping", expression |-> expression]
LiteralExpr(value) == [type |-> "Literal", value |-> value]
UnaryExpr(operator, right) == [type |-> "Unary", operator |-> operator, right |-> right]
VariableExpr(name, id) == [type |-> "Variable", name |-> name, id |-> id]
AssignExpr(name, value, id) ==
    [type |-> "Assign", name |-> name, value |-> value, id |-> id]
LogicalExpr(left, operator, right) ==
    [type |-> "Logical", left |-> left, operator |-> operator, right |-> right]
CallExpr(callee, paren, args) ==
    [type |-> "Call", callee |-> callee, paren |-> paren, args |-> args]
GetExpr(object, name) == [type |-> "Get", object |-> object, name |-> name]
SetExpr(object, name, value) ==
    [type |-> "Set", object |-> object, name |-> name, value |-> value]
ThisExpr(keyword, id) == [type |-> "This", keyword |-> keyword, id |-> id]
SuperExpr(keyword, method, id) ==
    [type |-> "Super", keyword |-> keyword, method |-> method, id |-> id]
ExpressionStmt(expression) == [type |-> "Expression", expression |-> expression]
PrintStmt(expression) == [type |-> "PrintStmt", expression |-> expression]
VarStmt(name, initializer) == [type |-> "Var", name |-> name, initializer |-> initializer]
BlockStmt(statements) == [type |-> "Block", statements |-> statements]
IfStmt(condition, thenBranch, elseBranch) ==
    [type |-> "If", condition |-> condition, thenBranch |-> thenBranch,
     elseBranch |-> elseBranch]
WhileStmt(condition, body) == [type |-> "While", condition |-> condition, body |-> body]
FunctionStmt(name, params, body) ==
    [type |-> "Function", name |-> name, params |-> params, body |-> body]
ReturnStmt(keyword, value) == [type |-> "Return", keyword |-> keyword, value |-> value]
\* superclass is a VariableExpr or Null
ClassStmt(name, superclass, methods) ==
    [type |-> "Class", name |-> name, superclass |-> superclass, methods |-> methods]

(***************************************************************************)
(* Parser (parser.ts).  A parser state is the token list, the cursor and   *)
(* the error reporter it reports to; a result is the state after the call  *)
(* with the node built, or with the SyntaxError thrown.                    *)
(***************************************************************************)

Parser_new(tokens, reporter, run) ==
    [tokens |-> tokens, current |-> 0, reporter |-> reporter, run |-> run]

Parser_peek(p) == p.tokens[p.current + 1]

Parser_previous(p) == p.tokens[p.current]

Parser_isAtEnd(p) == Parser_peek(p).type = "EOF"

\* advance(); the token returned is Parser_previous of the result
Parser_advance(p) == IF ~Parser_isAtEnd(p) THEN [p EXCEPT !.current = @ + 1] ELSE p

Parser_check(p, type) == IF Parser_isAtEnd(p) THEN FALSE ELSE Parser_peek(p).type = type

\* match(...types) is Parser_matches; when it holds the cursor advances
Parser_matches(p, types) == \E type \in types : Parser_check(p, type)

Parser_error(token, message) ==
    IF token.type = "EOF" THEN SyntaxError(message, token.line, "end")
    ELSE SyntaxError(message, token.line, "'" \o token.lexeme \o "'")

Ok(p, node) == [p |-> p, node |-> node, err |-> NoError]

Throw(p, error) == [p |-> p, node |-> Null, err |-> error]

Parser_consume(p, type, message) ==
    IF Parser_check(p, type) THEN Ok(Parser_advance(p), Parser_peek(p))
    ELSE Throw(p, Parser_error(Parser_peek(p), message))

Parser_report(p, error) == [p EXCEPT !.reporter = ErrorReporter_report(@, error)]

\* the identity of a node created from the token just consumed
NodeId(p) == [run |-> p.run, at |-> p.current]

SyncKeywords == {"Class", "Fun", "Var", "For", "If", "While", "Print", "Return"}

\* A rule of the grammar is a method of the class, and a rule that uses
\* another calls this.<rule>(): Parser_rule is that call, by the name of
\* the method (extra is the second argument of the two methods that take
\* one: the callee of finishCall, the kind of funDeclaration).
RECURSIVE Parser_rule(_, _, _)

Parser_expression(p) == Parser_rule("assignment", p, Null)

Parser_assignment(p) ==
    LET e == Parser_rule("logicalOr", p, Null) IN
    IF e.err # NoError THEN e
    ELSE IF Parser_matches(e.p, {"Equal"})
    THEN LET p1 == Parser_advance(e.p)
             equals == Parser_previous(p1)
             v == Parser_rule("assignment", p1, Null)
         IN IF v.err # NoError THEN v
            ELSE IF e.node.type = "Variable"
            THEN Ok(v.p, AssignExpr(e.node.name, v.node, e.node.id))
            ELSE Ok(Parser_report(v.p,
                        SyntaxError("Invalid assignment target", equals.line, "")),
                    e.node)
    ELSE e

\* while (match(...)) expr = new LogicalExpr(expr, operator, logicalAnd())
Parser_logicalOr(p) ==
    LET RECURSIVE loop(_)
        loop(e) ==
            IF Parser_matches(e.p, {"Or"})
            THEN LET p1 == Parser_advance(e.p)
                     r == Parser_rule("logicalAnd", p1, Null)
                 IN IF r.err # NoError THEN r
                    ELSE loop(Ok(r.p, LogicalExpr(e.node, Parser_previous(p1), r.node)))
            ELSE e
        first == Parser_rule("logicalAnd", p, Null)
    IN IF first.err # NoError THEN first ELSE loop(first)

\* while (match(...)) expr = new LogicalExpr(expr, operator, equality())
Parser_logicalAnd(p) ==
    LET RECURSIVE loop(_)
        loop(e) ==
            IF Parser_matches(e.p, {"And"})
            THEN LET p1 == Parser_advance(e.p)
                     r == Parser_rule("equality", p1, Null)
                 IN IF r.err # NoError THEN r
                    ELSE loop(Ok(r.p, LogicalExpr(e.node, Parser_previous(p1), r.node)))
            ELSE e
        first == Parser_rule("equality", p, Null)
    IN IF first.err # NoError THEN first ELSE loop(first)

\* while (match(...)) expr = new BinaryExpr(expr, operator, comparison())
Parser_equality(p) ==
    LET RECURSIVE loop(_)
        loop(e) ==
            IF Parser_matches(e.p, {"BangEqual", "EqualEqual"})
            THEN LET p1 == Parser_advance(e.p)
                     r == Parser_rule("comparison", p1, Null)
                 IN IF r.err # NoError THEN r
                    ELSE loop(Ok(r.p, BinaryExpr(e.node, Parser_previous(p1), r.node)))
            ELSE e
        first == Parser_rule("comparison", p, Null)
    IN IF first.err # NoError THEN first ELSE loop(first)

\* while (match(...)) expr = new BinaryExpr(expr, operator, term())
Parser_comparison(p) ==
    LET RECURSIVE loop(_)
        loop(e) ==
            IF Parser_matches(e.p, {"Greater", "GreaterEqual", "Less", "LessEqual"})
            THEN LET p1 == Parser_advance(e.p)
                     r == Parser_rule("term", p1, Null)
                 IN IF r.err # NoError THEN r
                    ELSE loop(Ok(r.p, BinaryExpr(e.node, Parser_previous(p1), r.node)))
            ELSE e
        first == Parser_rule("term", p, Null)
    IN IF first.err # NoError THEN first ELSE loop(first)

\* term with the right operand taken by term itself: a - b - c read as
\* a - (b - c)
Parser_termRightAssociative(p) ==
    LET first == Parser_rule("factor", p, Null) IN
    IF first.err # NoError THEN first
    ELSE IF Parser_matches(first.p, {"Minus", "Plus"})
    THEN LET p1 == Parser_advance(first.p)
             r == Parser_rule("term", p1, Null)
         IN IF r.err # NoError THEN r
            ELSE Ok(r.p, BinaryExpr(first.node, Parser_previous(p1), r.node))
    ELSE first

\* while (match(...)) expr = new BinaryExpr(expr, operator, factor())
Parser_term(p) ==
    LET RECURSIVE loop(_)
        loop(e) ==
            IF Parser_matches(e.p, {"Minus", "Plus"})
            THEN LET p1 == Parser_advance(e.p)
                     r == Parser_rule("factor", p1, Null)
                 IN IF r.err # NoError THEN r
                    ELSE loop(Ok(r.p, BinaryExpr(e.node, Parser_previous(p1), r.node)))
            ELSE e
        first == Parser_rule("factor", p, Null)
    IN IF first.err # NoError THEN first ELSE loop(first)

\* while (match(...)) expr = new BinaryExpr(expr, operator, unary())
Parser_factor(p) ==
    LET RECURSIVE loop(_)
        loop(e) ==
            IF Parser_matches(e.p, {"Slash", "Star"})
            THEN LET p1 == Parser_advance(e.p)
                     r == Parser_rule("unary", p1, Null)
                 IN IF r.err # NoError THEN r
                    ELSE loop(Ok(r.p, BinaryExpr(e.node, Parser_previous(p1), r.node)))
            ELSE e
        first == Parser_rule("unary", p, Null)
    IN IF first.err # NoError THEN first ELSE loop(first)

Parser_unary(p) ==
    IF Parser_matches(p, {"Bang", "Minus"})
    THEN LET p1 == Parser_advance(p)
             r == Parser_rule("unary", p1, Null)
         IN IF r.err # NoError THEN r
            ELSE Ok(r.p, UnaryExpr(Parser_previous(p1), r.node))
    ELSE Parser_rule("call", p, Null)

\* while (match(LeftParen)) expr = finishCall(expr)
Parser_call(p) ==
    LET RECURSIVE loop(_)
        loop(e) ==
            IF Parser_matches(e.p, {"LeftParen"})
            THEN LET r == Parser_rule("finishCall", Parser_advance(e.p), e.node)
                 IN IF r.err # NoError THEN r ELSE loop(r)
            ELSE e
        first == Parser_rule("primary", p, Null)
    IN IF first.err # NoError THEN first ELSE loop(first)

\* do { args.push(expression()) } while (match(Comma)), then consume(RightParen)
Parser_finishCall(p, callee) ==
    LET RECURSIVE arguments(_, _)
        arguments(q, args) ==
            LET q1 == IF Len(args) >= 255
                      THEN Parser_report(q, SyntaxError("Can't have more than 255 args",
                                                        Parser_peek(q).line, ""))
                      ELSE q
                a == Parser_rule("expression", q1, Null)
            IN IF a.err # NoError THEN a
               ELSE IF Parser_matches(a.p, {"Comma"})
               THEN arguments(Parser_advance(a.p), Append(args, a.node))
               ELSE Ok(a.p, Append(args, a.node))
        a == IF ~Parser_check(p, "RightParen") THEN arguments(p, <<>>) ELSE Ok(p, <<>>)
    IN IF a.err # NoError THEN a
       ELSE LET paren == Parser_consume(a.p, "RightParen", "Expect ')' after arguments")
            IN IF paren.err # NoError THEN paren
               ELSE Ok(paren.p, CallExpr(callee, paren.node, a.node))

Parser_primary(p) ==
    IF Parser_matches(p, {"False"}) THEN Ok(Parser_advance(p), LiteralExpr(Bool(FALSE)))
    ELSE IF Parser_matches(p, {"True"}) THEN Ok(Parser_advance(p), LiteralExpr(Bool(TRUE)))
    ELSE IF Parser_matches(p, {"Nil"}) THEN Ok(Parser_advance(p), LiteralExpr(Nil))
    ELSE IF Parser_matches(p, {"Number", "String"})
    THEN Ok(Parser_advance(p), LiteralExpr(Parser_peek(p).literal))
    ELSE IF Parser_matches(p, {"Identifier"})
    THEN LET p1 == Parser_advance(p) IN Ok(p1, VariableExpr(Parser_previous(p1), NodeId(p1)))
    ELSE IF Parser_matches(p, {"LeftParen"})
    THEN LET e == Parser_rule("expression", Parser_advance(p), Null) IN
         IF e.err # NoError THEN e
         ELSE LET c == Parser_consume(e.p, "RightParen", "Expect ')' after expression")
              IN IF c.err # NoError THEN c ELSE Ok(c.p, GroupingExpr(e.node))
    ELSE Throw(p, Parser_error(Parser_peek(p), "Expect expression"))

Parser_varDeclaration(p) ==
    LET named(name) ==
            LET initialized(init) ==
                    LET ended(semi) ==
                            IF semi.err # NoError THEN semi
                            ELSE Ok(semi.p, VarStmt(name.node, init.node))
                    IN IF init.err # NoError THEN init
                       ELSE ended(Parser_consume(init.p, "Semicolon",
                                      "Expect ';' after variable declaration"))
            IN IF name.err # NoError THEN name
               ELSE initialized(IF Parser_matches(name.p, {"Equal"})
                                THEN Parser_rule("expression", Parser_advance(name.p), Null)
                                ELSE Ok(name.p, Null))
    IN named(Parser_consume(p, "Identifier", "Expect variable name"))

Parser_printStatement(p) ==
    LET value == Parser_rule("expression", p, Null) IN
    IF value.err # NoError THEN value
    ELSE LET semi == Parser_consume(value.p, "Semicolon", "Expect ';' after value")
         IN IF semi.err # NoError THEN semi ELSE Ok(semi.p, PrintStmt(value.node))

Parser_expressionStatement(p) ==
    LET e == Parser_rule("expression", p, Null) IN
    IF e.err # NoError THEN e
    ELSE LET semi == Parser_consume(e.p, "Semicolon", "Expect ';' after expression")
         IN IF semi.err # NoError THEN semi ELSE Ok(semi.p, ExpressionStmt(e.node))

\* called after match(Return): keyword is previous()
Parser_returnStatement(p) ==
    LET keyword == Parser_previous(p)
        value == IF ~Parser_check(p, "Semicolon") THEN Parser_rule("expression", p, Null) ELSE Ok(p, Null)
    IN IF value.err # NoError THEN value
       ELSE LET semi == Parser_consume(value.p, "Semicolon",
                            "Expect ';' after return value")
            IN IF semi.err # NoError THEN semi
               ELSE Ok(semi.p, ReturnStmt(keyword, value.node))

Parser_declaration(p) ==
    IF Parser_matches(p, {"Fun"}) THEN Parser_rule("funDeclaration", Parser_advance(p), "function")
    ELSE IF Parser_matches(p, {"Var"}) THEN Parser_rule("varDeclaration", Parser_advance(p), Null)
    ELSE Parser_rule("statement", p, Null)

\* the parameter loop is
\* do { params.push(consume(Identifier)) } while (match(Comma))
Parser_funDeclaration(p, kind) ==
    LET RECURSIVE parameters(_, _)
        parameter(param, params) ==
            IF param.err # NoError THEN param
            ELSE IF Parser_matches(param.p, {"Comma"})
            THEN parameters(Parser_advance(param.p), Append(params, param.node))
            ELSE Ok(param.p, Append(params, param.node))
        parameters(q, params) ==
            parameter(Parser_consume(
                          IF Len(params) >= 255
                          THEN Parser_report(q,
                                   SyntaxError("Can't have more than 255 parameters",
                                               Parser_peek(q).line, ""))
                          ELSE q,
                          "Identifier", "Expect parameter name"),
                      params)
        \* the steps of the method, last one first; each takes what the
        \* steps before it produced
        parsed(name, params, body) ==
            IF body.err # NoError THEN body
            ELSE Ok(body.p, FunctionStmt(name.node, params.node, body.node))
        braced(name, params, lb) ==
            IF lb.err # NoError THEN lb
            ELSE parsed(name, params, Parser_rule("block", lb.p, Null))
        closed(name, params, rp) ==
            IF rp.err # NoError THEN rp
            ELSE braced(name, params,
                        Parser_consume(rp.p, "LeftBrace",
                            "Expect '{' before " \o kind \o " body"))
        listed(name, params) ==
            IF params.err # NoError THEN params
            ELSE closed(name, params,
                        Parser_consume(params.p, "RightParen",
                            "Expect ')' after parameters."))
        opened(name, lp) ==
            IF lp.err # NoError THEN lp
            ELSE listed(name, IF ~Parser_check(lp.p, "RightParen")
                              THEN parameters(lp.p, <<>>) ELSE Ok(lp.p, <<>>))
        named(name) ==
            IF name.err # NoError THEN name
            ELSE opened(name, Parser_consume(name.p, "LeftParen",
                                  "Expect '(' after " \o kind \o " name"))
    IN named(Parser_consume(p, "Identifier", "Expect " \o kind \o " name"))

Parser_statement(p) ==
    IF Parser_matches(p, {"Print"}) THEN Parser_rule("printStatement", Parser_advance(p), Null)
    ELSE IF Parser_matches(p, {"Return"}) THEN Parser_rule("returnStatement", Parser_advance(p), Null)
    ELSE IF Parser_matches(p, {"LeftBrace"})
    THEN LET b == Parser_rule("block", Parser_advance(p), Null) IN
         IF b.err # NoError THEN b ELSE Ok(b.p, BlockStmt(b.node))
    ELSE IF Parser_matches(p, {"If"}) THEN Parser_rule("ifStatement", Parser_advance(p), Null)
    ELSE IF Parser_matches(p, {"While"}) THEN Parser_rule("whileStatement", Parser_advance(p), Null)
    ELSE IF Parser_matches(p, {"For"}) THEN Parser_rule("forStatement", Parser_advance(p), Null)
    ELSE Parser_rule("expressionStatement", p, Null)

\* block(): while (!check(RightBrace) && !isAtEnd()) statements.push(declaration());
\* the node is the statement list
Parser_block(p) ==
    LET RECURSIVE loop(_, _)
        loop(q, statements) ==
            IF ~Parser_check(q, "RightBrace") /\ ~Parser_isAtEnd(q)
            THEN LET d == Parser_rule("declaration", q, Null) IN
                 IF d.err # NoError THEN d ELSE loop(d.p, Append(statements, d.node))
            ELSE Ok(q, statements)
        b == loop(p, <<>>)
    IN IF b.err # NoError THEN b
       ELSE LET rb == Parser_consume(b.p, "RightBrace", "Expect '}' after block")
            IN IF rb.err # NoError THEN rb ELSE Ok(rb.p, b.node)

Parser_ifStatement(p) ==
    LET other(condition, thenBranch, elseBranch) ==
            IF elseBranch.err # NoError THEN elseBranch
            ELSE Ok(elseBranch.p,
                    IfStmt(condition.node, thenBranch.node, elseBranch.node))
        taken(condition, thenBranch) ==
            IF thenBranch.err # NoError THEN thenBranch
            ELSE other(condition, thenBranch,
                       IF Parser_matches(thenBranch.p, {"Else"})
                       THEN Parser_rule("statement", Parser_advance(thenBranch.p), Null)
                       ELSE Ok(thenBranch.p, Null))
        closed(condition, rp) ==
            IF rp.err # NoError THEN rp
            ELSE taken(condition, Parser_rule("statement", rp.p, Null))
        tested(condition) ==
            IF condition.err # NoError THEN condition
            ELSE closed(condition, Parser_consume(condition.p, "RightParen",
                                       "Expect ')' after if condition"))
        opened(lp) ==
            IF lp.err # NoError THEN lp ELSE tested(Parser_rule("expression", lp.p, Null))
    IN opened(Parser_consume(p, "LeftParen", "Expect '(' after 'if'"))

Parser_whileStatement(p) ==
    LET parsed(condition, body) ==
            IF body.err # NoError THEN body
            ELSE Ok(body.p, WhileStmt(condition.node, body.node))
        closed(condition, rp) ==
            IF rp.err # NoError THEN rp
            ELSE parsed(condition, Parser_rule("statement", rp.p, Null))
        tested(condition) ==
            IF condition.err # NoError THEN condition
            ELSE closed(condition, Parser_consume(condition.p, "RightParen",
                                       "Expect ')' after if condition"))
        opened(lp) ==
            IF lp.err # NoError THEN lp ELSE tested(Parser_rule("expression", lp.p, Null))
    IN opened(Parser_consume(p, "LeftParen", "Expect '(' after 'while'"))

\* a forStatement that puts the increment before the body
Parser_forStatementIncrementFirst(p) ==
    LET looped(initializer, condition, body) ==
            IF initializer # Null
            THEN BlockStmt(<<initializer,
                             WhileStmt(IF condition = Null THEN LiteralExpr(Bool(TRUE))
                                       ELSE condition, body)>>)
            ELSE WhileStmt(IF condition = Null THEN LiteralExpr(Bool(TRUE))
                           ELSE condition, body)
        desugar(initializer, condition, increment, body) ==
            looped(initializer, condition,
                   IF increment # Null
                   THEN BlockStmt(<<ExpressionStmt(increment), body>>) ELSE body)
        \* the steps of the method, last one first; each takes what the
        \* steps before it produced
        parsed(initializer, condition, increment, body) ==
            IF body.err # NoError THEN body
            ELSE Ok(body.p, desugar(initializer.node, condition.node,
                                    increment.node, body.node))
        closed(initializer, condition, increment, rp) ==
            IF rp.err # NoError THEN rp
            ELSE parsed(initializer, condition, increment,
                        Parser_rule("statement", rp.p, Null))
        stepped(initializer, condition, increment) ==
            IF increment.err # NoError THEN increment
            ELSE closed(initializer, condition, increment,
                        Parser_consume(increment.p, "RightParen",
                            "Expect ')' after for clauses"))
        separated(initializer, condition, semi) ==
            IF semi.err # NoError THEN semi
            ELSE stepped(initializer, condition,
                         IF ~Parser_check(semi.p, "RightParen")
                         THEN Parser_rule("expression", semi.p, Null)
                         ELSE Ok(semi.p, Null))
        tested(initializer, condition) ==
            IF condition.err # NoError THEN condition
            ELSE separated(initializer, condition,
                           Parser_consume(condition.p, "Semicolon",
                               "Expect ';' after loop condition"))
        started(initializer) ==
            IF initializer.err # NoError THEN initializer
            ELSE tested(initializer,
                        IF ~Parser_check(initializer.p, "Semicolon")
                        THEN Parser_rule("expression", initializer.p, Null)
                        ELSE Ok(initializer.p, Null))
        opened(lp) ==
            IF lp.err # NoError THEN lp
            ELSE started(IF Parser_matches(lp.p, {"Semicolon"})
                         THEN Ok(Parser_advance(lp.p), Null)
                         ELSE IF Parser_matches(lp.p, {"Var"})
                         THEN Parser_rule("varDeclaration", Parser_advance(lp.p), Null)
                         ELSE Parser_rule("expressionStatement", lp.p, Null))
    IN opened(Parser_consume(p, "LeftParen", "Expect '(' after 'for'"))

Parser_forStatement(p) ==
    LET looped(initializer, condition, body) ==
            IF initializer # Null
            THEN BlockStmt(<<initializer,
                             WhileStmt(IF condition = Null THEN LiteralExpr(Bool(TRUE))
                                       ELSE condition, body)>>)
            ELSE WhileStmt(IF condition = Null THEN LiteralExpr(Bool(TRUE))
                           ELSE condition, body)
        desugar(initializer, condition, increment, body) ==
            looped(initializer, condition,
                   IF increment # Null
                   THEN BlockStmt(<<body, ExpressionStmt(increment)>>) ELSE body)
        \* the steps of the method, last one first; each takes what the
        \* steps before it produced
        parsed(initializer, condition, increment, body) ==
            IF body.err # NoError THEN body
            ELSE Ok(body.p, desugar(initializer.node, condition.node,
                                    increment.node, body.node))
        closed(initializer, condition, increment, rp) ==
            IF rp.err # NoError THEN rp
            ELSE parsed(initializer, condition, increment,
                        Parser_rule("statement", rp.p, Null))
        stepped(initializer, condition, increment) ==
            IF increment.err # NoError THEN increment
            ELSE closed(initializer, condition, increment,
                        Parser_consume(increment.p, "RightParen",
                            "Expect ')' after for clauses"))
        separated(initializer, condition, semi) ==
            IF semi.err # NoError THEN semi
            ELSE stepped(initializer, condition,
                         IF ~Parser_check(semi.p, "RightParen")
                         THEN Parser_rule("expression", semi.p, Null)
                         ELSE Ok(semi.p, Null))
        tested(initializer, condition) ==
            IF condition.err # NoError THEN condition
            ELSE separated(initializer, condition,
                           Parser_consume(condition.p, "Semicolon",
                               "Expect ';' after loop condition"))
        started(initializer) ==
            IF initializer.err # NoError THEN initializer
            ELSE tested(initializer,
                        IF ~Parser_check(initializer.p, "Semicolon")
                        THEN Parser_rule("expression", initializer.p, Null)
                        ELSE Ok(initializer.p, Null))
        opened(lp) ==
            IF lp.err # NoError THEN lp
            ELSE started(IF Parser_matches(lp.p, {"Semicolon"})
                         THEN Ok(Parser_advance(lp.p), Null)
                         ELSE IF Parser_matches(lp.p, {"Var"})
                         THEN Parser_rule("varDeclaration", Parser_advance(lp.p), Null)
                         ELSE Parser_rule("expressionStatement", lp.p, Null))
    IN opened(Parser_consume(p, "LeftParen", "Expect '(' after 'for'"))

\* a recovery that stops only after a semicolon
Parser_synchronizeToSemicolon(p) ==
    LET RECURSIVE loop(_)
        loop(q) ==
            IF ~Parser_isAtEnd(q)
            THEN IF Parser_previous(q).type = "Semicolon" THEN q
                 ELSE loop(Parser_advance(q))
            ELSE q
    IN loop(Parser_advance(p))

\* synchronize(): advance(), then the loop
Parser_synchronize(p) ==
    LET RECURSIVE loop(_)
        loop(q) ==
            IF ~Parser_isAtEnd(q)
            THEN IF Parser_previous(q).type = "Semicolon" THEN q
                 ELSE IF Parser_peek(q).type \in SyncKeywords THEN q
                 ELSE loop(Parser_advance(q))
            ELSE q
    IN loop(Parser_advance(p))

\* a parse that gives up at the first statement that fails
Parser_parseUntilError(p) ==
    LET RECURSIVE loop(_, _, _)
        loop(q, statements, spans) ==
            IF ~Parser_isAtEnd(q)
            THEN LET d == Parser_rule("declaration", q, Null) IN
                 IF d.err = NoError
                 THEN loop(d.p, Append(statements, d.node),
                          Append(spans, [ok |-> TRUE, from |-> q.current,
                                         at |-> d.p.current, to |-> d.p.current]))
                 ELSE [p |-> Parser_report(d.p, d.err), statements |-> statements,
                       spans |-> Append(spans, [ok |-> FALSE, from |-> q.current,
                                                at |-> d.p.current,
                                                to |-> d.p.current])]
            ELSE [p |-> q, statements |-> statements, spans |-> spans]
    IN loop(p, <<>>, <<>>)

\* parse(); spans records, for each iteration of the loop, where the call of
\* declaration() started, where it stopped and, after a failure, where
\* synchronize() left the cursor
Parser_parse(p) ==
    LET RECURSIVE loop(_, _, _)
        loop(q, statements, spans) ==
            IF ~Parser_isAtEnd(q)
            THEN LET d == Parser_rule("declaration", q, Null) IN
                 IF d.err = NoError
                 THEN loop(d.p, Append(statements, d.node),
                          Append(spans, [ok |-> TRUE, from |-> q.current,
                                         at |-> d.p.current, to |-> d.p.current]))
                 ELSE LET q1 == Parser_synchronize(Parser_report(d.p, d.err)) IN
                      loop(q1, statements,
                          Append(spans, [ok |-> FALSE, from |-> q.current,
                                         at |-> d.p.current, to |-> q1.current]))
            ELSE [p |-> q, statements |-> statements, spans |-> spans]
    IN loop(p, <<>>, <<>>)

\* a parseRepl whose catch block leaves the cursor where the failure left it
Parser_parseReplFromFailure(p) ==
    LET RECURSIVE loop(_, _, _)
        loop(q, statements, spans) ==
            IF ~Parser_isAtEnd(q)
            THEN LET d == Parser_rule("declaration", q, Null) IN
                 IF d.err = NoError
                 THEN loop(d.p, Append(statements, d.node),
                          Append(spans, [ok |-> TRUE, from |-> q.current,
                                         at |-> d.p.current, to |-> d.p.current]))
                 ELSE [p |-> d.p, cursor |-> q.current, statements |-> statements,
                       spans |-> spans, err |-> d.err]
            ELSE [p |-> q, cursor |-> q.current, statements |-> statements,
                  spans |-> spans, err |-> NoError]
        r == loop(p, <<>>, <<>>)
    IN
    IF r.err = NoError
    THEN [p |-> r.p, statements |-> r.statements, expr |-> Null, err |-> NoError,
          spans |-> r.spans, cursor |-> r.cursor, failed |-> FALSE]
    ELSE LET e == Parser_rule("expression", r.p, Null) IN
         [p |-> e.p, statements |-> r.statements, expr |-> e.node, err |-> e.err,
          spans |-> r.spans, cursor |-> r.cursor, failed |-> TRUE]

\* parseRepl(): [statements, expr], or the error thrown by expression();
\* cursor is the field of that name when the try block is left
Parser_parseRepl(p) ==
    LET RECURSIVE loop(_, _, _)
        loop(q, statements, spans) ==
            IF ~Parser_isAtEnd(q)
            THEN LET d == Parser_rule("declaration", q, Null) IN
                 IF d.err = NoError
                 THEN loop(d.p, Append(statements, d.node),
                          Append(spans, [ok |-> TRUE, from |-> q.current,
                                         at |-> d.p.current, to |-> d.p.current]))
                 ELSE [p |-> d.p, cursor |-> q.current, statements |-> statements,
                       spans |-> spans, err |-> d.err]
            ELSE [p |-> q, cursor |-> q.current, statements |-> statements,
                  spans |-> spans, err |-> NoError]
        r == loop(p, <<>>, <<>>)
    IN
    IF r.err = NoError
    THEN [p |-> r.p, statements |-> r.statements, expr |-> Null, err |-> NoError,
          spans |-> r.spans, cursor |-> r.cursor, failed |-> FALSE]
    ELSE LET e == Parser_rule("expression", [r.p EXCEPT !.current = r.cursor], Null) IN
         [p |-> e.p, statements |-> r.statements, expr |-> e.node, err |-> e.err,
          spans |-> r.spans, cursor |-> r.cursor, failed |-> TRUE]

Parser_rule(name, p, extra) ==
    CASE name = "expression" -> Parser_expression(p)
      [] name = "assignment" -> Parser_assignment(p)
      [] name = "logicalOr" -> Parser_logicalOr(p)
      [] name = "logicalAnd" -> Parser_logicalAnd(p)
      [] name = "equality" -> Parser_equality(p)
      [] name = "comparison" -> Parser_comparison(p)
      [] name = "term" -> Parser_term(p)
      [] name = "factor" -> Parser_factor(p)
      [] name = "unary" -> Parser_unary(p)
      [] name = "call" -> Parser_call(p)
      [] name = "finishCall" -> Parser_finishCall(p, extra)
      [] name = "primary" -> Parser_primary(p)
      [] name = "varDeclaration" -> Parser_varDeclaration(p)
      [] name = "printStatement" -> Parser_printStatement(p)
      [] name = "expressionStatement" -> Parser_expressionStatement(p)
      [] name = "returnStatement" -> Parser_returnStatement(p)
      [] name = "declaration" -> Parser_declaration(p)
      [] name = "funDeclaration" -> Parser_funDeclaration(p, extra)
      [] name = "statement" -> Parser_statement(p)
      [] name = "block" -> Parser_block(p)
      [] name = "ifStatement" -> Parser_ifStatement(p)
      [] name = "whileStatement" -> Parser_whileStatement(p)
      [] name = "forStatement" -> Parser_forStatement(p)
      [] name = "parse" -> Parser_parse(p)
      [] name = "parseRepl" -> Parser_parseRepl(p)

(***************************************************************************)
(* Resolver (resolver.ts).  A resolver state is the scope stack, the       *)
(* currentFunction and currentClass fields, the error reporter and the     *)
(* interpreter's side-table locals, which Interpreter.resolve writes.      *)
(***************************************************************************)

EmptyMap == [k \in {} |-> Nil]

\* map[key] = value of a Record or a Map
Put(map, key, value) == (key :> value) @@ map

Resolver_new ==
    [scopes |-> <<>>, currentFunction |-> "None", currentClass |-> "None"]

\* Interpreter.resolve(expr, depth): this.locals.set(expr, depth)
Interpreter_resolve(locals, expr, depth) == Put(locals, expr.id, depth)

ScopeStack_isEmpty(scopes) == Len(scopes) < 1

ScopeStack_peek(scopes) == scopes[Len(scopes)]

\* resolveLocal: the loop runs from index scopes.length - 1 down to 0 and is
\* not left at a match (scopes[i] is scopes[i + 1] here)
Resolver_resolveLocal(r, expr, name) ==
    LET RECURSIVE loop(_, _)
        loop(q, i) ==
            IF i >= 0
            THEN loop(IF In(name.lexeme, q.scopes[i + 1])
                      THEN [q EXCEPT !.locals =
                               Interpreter_resolve(@, expr, Len(q.scopes) - 1 - i)]
                      ELSE q,
                      i - 1)
            ELSE q
    IN loop(r, Len(r.scopes) - 1)

Resolver_beginScope(r) == [r EXCEPT !.scopes = Append(@, EmptyMap)]

\* what a visit found on entry and left on return, kept for the properties
Resolver_at(r) ==
    [depth |-> Len(r.scopes), currentFunction |-> r.currentFunction,
     currentClass |-> r.currentClass, log |-> Len(r.reporter.log)]

Resolver_visited(r, kind, left) ==
    [left EXCEPT !.trace = Append(@, [node |-> kind, before |-> Resolver_at(r),
                                      after |-> Resolver_at(left)])]

Resolver_endScope(r) ==
    [r EXCEPT !.scopes = IF Len(@) = 0 THEN @ ELSE SubSeq(@, 1, Len(@) - 1)]

Resolver_report(r, error) == [r EXCEPT !.reporter = ErrorReporter_report(@, error)]

\* declare reporting a name that any scope of the stack holds
Resolver_declareAnyScope(r, name) ==
    IF ScopeStack_isEmpty(r.scopes) THEN r
    ELSE LET r1 == IF \E i \in 1..Len(r.scopes) : In(name.lexeme, r.scopes[i])
                   THEN Resolver_report(r,
                            ResolvingError("Already variable with this name in this scope",
                                           name.line))
                   ELSE r
         IN [r1 EXCEPT !.scopes[Len(r.scopes)] = Put(@, name.lexeme, FALSE)]

Resolver_declare(r, name) ==
    IF ScopeStack_isEmpty(r.scopes) THEN r
    ELSE LET scope == ScopeStack_peek(r.scopes)
             r1 == IF In(name.lexeme, scope)
                   THEN Resolver_report(r,
                            ResolvingError("Already variable with this name in this scope",
                                           name.line))
                   ELSE r
         IN [r1 EXCEPT !.scopes[Len(r.scopes)] = Put(@, name.lexeme, FALSE)]

Resolver_define(r, name) ==
    IF ScopeStack_isEmpty(r.scopes) THEN r
    ELSE [r EXCEPT !.scopes[Len(r.scopes)] = Put(@, name.lexeme, TRUE)]

RECURSIVE Resolver_resolve(_, _), Resolver_resolveAll(_, _),
          Resolver_resolveFunction(_, _, _)

\* resolve(target: Stmt[]): target.forEach((stmt) => this.resolve(stmt))
\* (the test on r1 makes TLC finish one element before it starts the next)
Resolver_resolveAll(r, nodes) ==
    IF nodes = <<>> THEN r
    ELSE LET r1 == Resolver_resolve(r, Head(nodes)) IN
         IF r1 = r1 THEN Resolver_resolveAll(r1, Tail(nodes)) ELSE r1

\* a resolveFunction that leaves currentFunction as the body had it
Resolver_resolveFunctionKeepingType(r, fun, type) ==
    LET RECURSIVE params(_, _)
        params(q, rest) ==
            IF rest = <<>> THEN q
            ELSE params(Resolver_define(Resolver_declare(q, Head(rest)), Head(rest)),
                        Tail(rest))
        r1 == Resolver_beginScope([r EXCEPT !.currentFunction = type])
        r2 == params(r1, fun.params)
        r3 == Resolver_resolveAll(r2, fun.body)
    IN Resolver_endScope(r3)

\* fun.params.forEach((param) => { declare(param); define(param) })
Resolver_resolveFunction(r, fun, type) ==
    LET RECURSIVE params(_, _)
        params(q, rest) ==
            IF rest = <<>> THEN q
            ELSE params(Resolver_define(Resolver_declare(q, Head(rest)), Head(rest)),
                        Tail(rest))
        enclosingFunction == r.currentFunction
        r1 == Resolver_beginScope([r EXCEPT !.currentFunction = type])
        r2 == params(r1, fun.params)
        r3 == Resolver_resolveAll(r2, fun.body)
        r4 == Resolver_endScope(r3)
    IN [r4 EXCEPT !.currentFunction = enclosingFunction]

\* visitVariableExpr without the test of the scope on top
Resolver_visitVariableExprUnchecked(r, expr) == Resolver_resolveLocal(r, expr, expr.name)

Resolver_visitVariableExpr(r, expr) ==
    LET r1 == IF /\ ~ScopeStack_isEmpty(r.scopes)
                 /\ expr.name.lexeme \in DOMAIN ScopeStack_peek(r.scopes)
                 /\ ScopeStack_peek(r.scopes)[expr.name.lexeme] = FALSE
              THEN Resolver_report(r,
                       ResolvingError("Can't read local variable in its own initializer",
                                      expr.name.line))
              ELSE r
    IN Resolver_resolveLocal(r1, expr, expr.name)

Resolver_visitThisExpr(r, expr) ==
    IF r.currentClass = "None"
    THEN Resolver_report(r,
             ResolvingError("Can't use 'this' outside of a class", expr.keyword.line))
    ELSE Resolver_resolveLocal(r, expr, expr.keyword)

\* a visitor that accepts a return outside any function
Resolver_visitReturnStmtAnywhere(r, stmt) ==
    IF stmt.value # Null THEN Resolver_resolve(r, stmt.value) ELSE r

Resolver_visitReturnStmt(r, stmt) ==
    LET r1 == IF r.currentFunction = "None"
              THEN Resolver_report(r,
                       ResolvingError("Can't return from top-level code",
                                      stmt.keyword.line))
              ELSE r
    IN IF stmt.value # Null
       THEN LET r2 == IF r1.currentFunction = "Initializer"
                      THEN Resolver_report(r1,
                               ResolvingError("Can't return a value from an initializer",
                                              stmt.keyword.line))
                      ELSE r1
            IN Resolver_resolve(r2, stmt.value)
       ELSE r1

Resolver_visitVarStmt(r, stmt) ==
    LET r1 == Resolver_declare(r, stmt.name)
        r2 == IF stmt.initializer # Null THEN Resolver_resolve(r1, stmt.initializer)
              ELSE r1
    IN Resolver_define(r2, stmt.name)

Resolver_visitFunctionStmt(r, stmt) ==
    Resolver_resolveFunction(
        Resolver_define(Resolver_declare(r, stmt.name), stmt.name), stmt, "Function")

Resolver_visitBlockStmt(r, stmt) ==
    Resolver_endScope(Resolver_resolveAll(Resolver_beginScope(r), stmt.statements))

Resolver_visitSuperExpr(r, expr) ==
    LET r1 == IF r.currentClass = "None"
              THEN Resolver_report(r,
                       ResolvingError("Can't use 'super' outside of class",
                                      expr.keyword.line))
              ELSE IF r.currentClass # "SubClass"
              THEN Resolver_report(r,
                       ResolvingError("Can't use 'super' in a class with no superclass",
                                      expr.keyword.line))
              ELSE r
    IN Resolver_resolveLocal(r1, expr, expr.keyword)

\* visitClassStmt of the resolver with inheritance: the scope holding super
\* is pushed only for a superclass other than the class itself, and
\* if (stmt.superclass !== null) this.endScope() pops for every superclass;
\* stmt.methods.forEach((method) => resolveFunction(method, declaration));
\* r2 = r2 and r4 = r4 have TLC compute the state on entry to the methods
\* before it descends into them
Resolver_visitClassStmt(r, stmt) ==
    LET RECURSIVE methods(_, _)
        methods(q, rest) ==
            IF rest = <<>> THEN q
            ELSE LET method == Head(rest)
                     declaration == IF method.name.lexeme = "init" THEN "Initializer"
                                    ELSE "Method"
                 IN methods(Resolver_visited(q, "Method",
                                Resolver_resolveFunction(q, method, declaration)),
                            Tail(rest))
        enclosingClass == r.currentClass
        r1 == Resolver_define(
                Resolver_declare([r EXCEPT !.currentClass = "Class"], stmt.name),
                stmt.name)
        superScope(q) ==
            LET q1 == Resolver_beginScope(q) IN
            [q1 EXCEPT !.scopes[Len(q1.scopes)] = Put(@, "super", TRUE)]
        r2 == IF stmt.superclass # Null
              THEN IF stmt.name.lexeme = stmt.superclass.name.lexeme
                   THEN Resolver_report(r1,
                            ResolvingError("A class can't inherit from itself.",
                                           stmt.superclass.name.line))
                   ELSE superScope(Resolver_resolve([r1 EXCEPT !.currentClass = "SubClass"],
                                                    stmt.superclass))
              ELSE r1
        r3 == Resolver_beginScope(r2)
        r4 == [r3 EXCEPT !.scopes[Len(r3.scopes)] = Put(@, "this", TRUE)]
        r5 == Resolver_endScope(methods(r4, stmt.methods))
        r6 == IF stmt.superclass # Null THEN Resolver_endScope(r5) ELSE r5
    IN IF r2 = r2 /\ r4 = r4 THEN [r6 EXCEPT !.currentClass = enclosingClass] ELSE r

\* resolve(target: Stmt | Expr): target.accept(this)
Resolver_resolve(r, node) ==
    Resolver_visited(r, node.type,
    CASE node.type \in {"Binary", "Logical"} ->
            Resolver_resolve(Resolver_resolve(r, node.left), node.right)
      [] node.type = "Call" ->
            Resolver_resolveAll(Resolver_resolve(r, node.callee), node.args)
      [] node.type = "Grouping" -> Resolver_resolve(r, node.expression)
      [] node.type = "Literal" -> r
      [] node.type = "Unary" -> Resolver_resolve(r, node.right)
      [] node.type = "Variable" -> Resolver_visitVariableExpr(r, node)
      [] node.type = "Assign" ->
            Resolver_resolveLocal(Resolver_resolve(r, node.value), node, node.name)
      [] node.type = "Get" -> Resolver_resolve(r, node.object)
      [] node.type = "Set" ->
            Resolver_resolve(Resolver_resolve(r, node.value), node.object)
      [] node.type = "This" -> Resolver_visitThisExpr(r, node)
      [] node.type = "Super" -> Resolver_visitSuperExpr(r, node)
      [] node.type \in {"Expression", "PrintStmt"} -> Resolver_resolve(r, node.expression)
      [] node.type = "If" ->
            LET r1 == Resolver_resolve(Resolver_resolve(r, node.condition),
                                       node.thenBranch)
            IN IF node.elseBranch # Null THEN Resolver_resolve(r1, node.elseBranch)
               ELSE r1
      [] node.type = "Return" -> Resolver_visitReturnStmt(r, node)
      [] node.type = "While" ->
            Resolver_resolve(Resolver_resolve(r, node.condition), node.body)
      [] node.type = "Block" -> Resolver_visitBlockStmt(r, node)
      [] node.type = "Var" -> Resolver_visitVarStmt(r, node)
      [] node.type = "Function" -> Resolver_visitFunctionStmt(r, node)
      [] node.type = "Class" -> Resolver_visitClassStmt(r, node))

(***************************************************************************)
(* Runtime values (types.ts) and environments (interpreter.ts).            *)
(*                                                                         *)
(* An interpreter state st holds the heap: envs, the Environment objects   *)
(* (index 1 is globals, enclosing 0 is null), and instances, the           *)
(* LoxInstance objects; environment, the index of this.environment;        *)
(* locals, the side-table; output, the lines written by console.log; the   *)
(* error reporter.  steps, depth and trace are observations: the number    *)
(* of statements executed, the number of active LoxFunction.call frames    *)
(* and the record of executions, calls and returns.                        *)
(***************************************************************************)

\* the most statements the interpreter executes in the model, and the most
\* LoxFunction.call frames the host's stack holds (beyond it the host throws a
\* RangeError)
MaxSteps == 40

MaxDepth == 4

LoxClockFunction == [t |-> "clock"]
LoxFunction(declaration, closure, isInitializer) ==
    [t |-> "function", declaration |-> declaration, closure |-> closure,
     isInitializer |-> isInitializer]
\* new LoxClass(name, superclass, methods), the constructor of the variant
\* with inheritance; superclass is a class or Null
LoxSubclass(name, superclass, methods) ==
    [t |-> "class", name |-> name, superclass |-> superclass, methods |-> methods]
\* new LoxClass(name, methods): a class without superclass
LoxClass(name, methods) == LoxSubclass(name, Null, methods)
\* a reference to the LoxInstance object st.instances[ref]
InstanceRef(ref) == [t |-> "instance", ref |-> ref]
\* the signal thrown by a return statement
Return(value) == [name |-> "Return", value |-> value]
\* a JavaScript error that is none of the interpreter's own
HostError(name) == [name |-> name]

IsCallable(v) == v.t \in {"clock", "function", "class"}

Val(st, v) == [st |-> st, val |-> v, exc |-> NoError]

Exc(st, e) == [st |-> st, val |-> Nil, exc |-> e]

Interpreter_new ==
    [envs |-> <<[enclosing |-> 0, values |-> Put(EmptyMap, "clock", LoxClockFunction)]>>,
     instances |-> <<>>, environment |-> 1, locals |-> EmptyMap, output |-> <<>>,
     steps |-> 0, depth |-> 0, trace |-> <<>>, now |-> 0]

Globals == 1

\* new Environment(enclosing): the state with the object added; its index is
\* Len(envs) of the result
Environment_new(st, enclosing) ==
    [st EXCEPT !.envs = Append(@, [enclosing |-> enclosing, values |-> EmptyMap])]

\* an ancestor whose loop starts at 0: one link further than distance
Environment_ancestorOneFurther(envs, e, distance) ==
    LET RECURSIVE loop(_, _)
        loop(environment, i) ==
            IF i < distance
            THEN loop(IF environment = 0 THEN 0 ELSE envs[environment].enclosing, i + 1)
            ELSE environment
    IN IF distance = 0 THEN e ELSE loop(envs[e].enclosing, 0)

\* ancestor(distance): the loop is environment = environment?.enclosing || null
Environment_ancestor(envs, e, distance) ==
    LET RECURSIVE loop(_, _)
        loop(environment, i) ==
            IF i < distance
            THEN loop(IF environment = 0 THEN 0 ELSE envs[environment].enclosing, i + 1)
            ELSE environment
    IN IF distance = 0 THEN e ELSE loop(envs[e].enclosing, 1)

Environment_define(st, e, name, value) ==
    [st EXCEPT !.envs[e].values = Put(@, name, value)]

\* assign creating the binding in the outermost environment when no
\* environment holds the name
RECURSIVE Environment_assignCreating(_, _, _, _)
Environment_assignCreating(st, e, name, value) ==
    IF In(name.lexeme, st.envs[e].values) \/ st.envs[e].enclosing = 0
    THEN Val(Environment_define(st, e, name.lexeme, value), Nil)
    ELSE Environment_assignCreating(st, st.envs[e].enclosing, name, value)

RECURSIVE Environment_assign(_, _, _, _)
Environment_assign(st, e, name, value) ==
    IF In(name.lexeme, st.envs[e].values)
    THEN Val(Environment_define(st, e, name.lexeme, value), Nil)
    ELSE IF st.envs[e].enclosing # 0
    THEN Environment_assign(st, st.envs[e].enclosing, name, value)
    ELSE Exc(st, RuntimeError("Undefined variable '" \o name.lexeme \o "'", name))

Environment_assignAt(st, e, distance, name, value) ==
    LET environment == Environment_ancestor(st.envs, e, distance)
        st1 == IF environment # 0
               THEN Environment_define(st, environment, name.lexeme, value) ELSE st
    IN Exc(st1, RuntimeError("Undefined variable '" \o name.lexeme \o "'", name))

RECURSIVE Environment_get(_, _, _)
Environment_get(st, e, name) ==
    IF In(name.lexeme, st.envs[e].values)
    THEN Val(st, Lookup(st.envs[e].values, name.lexeme))
    ELSE IF st.envs[e].enclosing # 0 THEN Environment_get(st, st.envs[e].enclosing, name)
    ELSE Exc(st, RuntimeError("Undefined variable '" \o name.lexeme \o "'", name))

\* observations: one event per statement executed, call entered or left,
\* return statement completed, read made through the side-table
Note(st, event) == [st EXCEPT !.trace = Append(@, event)]

\* getAt; the trace notes the ancestor found (0 for null) and whether it
\* holds the name
Environment_getAt(st, e, distance, name) ==
    LET environment == Environment_ancestor(st.envs, e, distance)
        noted == Note(st, [ev |-> "getAt", depth |-> st.depth, name |-> name.lexeme,
                           distance |-> distance, ancestor |-> environment,
                           bound |-> IF environment = 0 THEN FALSE
                                     ELSE name.lexeme \in DOMAIN st.envs[environment].values])
    IN IF environment # 0 THEN Val(noted, Lookup(st.envs[environment].values, name.lexeme))
       ELSE Exc(noted, RuntimeError("Undefined variable '" \o name.lexeme \o "'", name))

Environment_getThis(st, e) == Lookup(st.envs[e].values, "this")

(***************************************************************************)
(* Interpreter (interpreter.ts) and callables (types.ts)                   *)
(***************************************************************************)

\* the decimal digits of a natural number
RECURSIVE NatToString(_)
NatToString(n) ==
    LET digit(d) ==
            CASE d = 0 -> "0" [] d = 1 -> "1" [] d = 2 -> "2" [] d = 3 -> "3"
              [] d = 4 -> "4" [] d = 5 -> "5" [] d = 6 -> "6" [] d = 7 -> "7"
              [] d = 8 -> "8" [] d = 9 -> "9"
    IN IF n < 10 THEN digit(n) ELSE NatToString(n \div 10) \o digit(n % 10)

\* Number.prototype.toString: at most 16 fractional digits are written
NumberToString(x) ==
    LET abs == IF x.n < 0 THEN -x.n ELSE x.n
        RECURSIVE fraction(_, _)
        fraction(r, k) ==
            IF r = 0 \/ k = 0 THEN ""
            ELSE NatToString((r * 10) \div x.d) \o fraction((r * 10) % x.d, k - 1)
        sign == IF x.n < 0 THEN "-" ELSE ""
    IN IF x.d = 0
       THEN IF x.n = 0 THEN "NaN" ELSE sign \o "Infinity"
       ELSE IF x.d = 1 THEN sign \o NatToString(abs)
       ELSE sign \o NatToString(abs \div x.d) \o "." \o fraction(abs % x.d, 16)

\* object.toString() of a LoxObject
ObjectToString(st, object) ==
    CASE object.t = "bool" -> IF object.v THEN "true" ELSE "false"
      [] object.t = "str" -> object.v
      [] object.t = "clock" -> "<native fun 'clock'>"
      [] object.t = "host" -> "function " \o object.name \o "() { [native code] }"
      [] object.t = "function" -> "<fun " \o object.declaration.name.lexeme \o ">"
      [] object.t = "class" -> "<class " \o object.name \o ">"
      [] object.t = "instance" ->
            "<instance of class " \o st.instances[object.ref].klass.name \o ">"

\* stringify(object); undefined.toString() throws a TypeError
Interpreter_stringify(st, object) ==
    IF object = Nil THEN Val(st, "nil")
    ELSE IF object.t = "num" THEN Val(st, NumberToString(object))
    ELSE IF object.t = "undefined" THEN Exc(st, HostError("TypeError"))
    ELSE Val(st, ObjectToString(st, object))

Interpreter_isTruthy(object) ==
    IF object = Nil THEN FALSE
    ELSE IF object.t = "bool" THEN object.v
    ELSE TRUE

\* a === b is false for NaN and NaN
Interpreter_isEqual(a, b) ==
    IF a = Nil /\ b = Nil THEN TRUE
    ELSE IF a = Nil THEN FALSE
    ELSE a = b /\ a # Number(0, 0)

Interpreter_checkNumberOperand(token, operand) ==
    IF operand.t = "num" THEN NoError
    ELSE RuntimeError("Operand must be a number", token)

Interpreter_checkNumberOperands(token, left, right) ==
    IF left.t = "num" /\ right.t = "num" THEN NoError
    ELSE RuntimeError("Operands must be numbers", token)

\* the switch with the + of JavaScript, which joins a string and a number
Interpreter_binaryJoining(st, operator, left, right) ==
    LET checked == Interpreter_checkNumberOperands(operator, left, right)
        numeric(v) == IF checked # NoError THEN Exc(st, checked) ELSE Val(st, v)
        nan == Number(0, 0) \in {left, right}
        \* the sign of left - right
        compare == left.n * right.d - right.n * left.d
        sum(a, b) == IF a.d = 0 /\ a = b THEN a
                     ELSE Number(a.n * b.d + b.n * a.d, a.d * b.d)
    IN CASE operator.type = "Greater" -> numeric(Bool(~nan /\ compare > 0))
         [] operator.type = "GreaterEqual" -> numeric(Bool(~nan /\ compare >= 0))
         [] operator.type = "Less" -> numeric(Bool(~nan /\ compare < 0))
         [] operator.type = "LessEqual" -> numeric(Bool(~nan /\ compare <= 0))
         [] operator.type = "Minus" ->
              numeric(sum(left, Number(-right.n, right.d)))
         [] operator.type = "BangEqual" -> Val(st, Bool(~Interpreter_isEqual(left, right)))
         [] operator.type = "EqualEqual" -> Val(st, Bool(Interpreter_isEqual(left, right)))
         [] operator.type = "Slash" ->
              numeric(Number(left.n * right.d, left.d * right.n))
         [] operator.type = "Star" ->
              numeric(Number(left.n * right.n, left.d * right.d))
         [] operator.type = "Plus" ->
              IF left.t = "num" /\ right.t = "num"
              THEN Val(st, sum(left, right))
              ELSE IF left.t = "str" /\ right.t = "str"
              THEN Val(st, Str(left.v \o right.v))
              ELSE IF left.t = "str" /\ right.t = "num"
              THEN Val(st, Str(left.v \o NumberToString(right)))
              ELSE IF left.t = "num" /\ right.t = "str"
              THEN Val(st, Str(NumberToString(left) \o right.v))
              ELSE Exc(st, RuntimeError("Operands must be two numbers or two strings",
                                        operator))
         [] OTHER -> Val(st, Nil)

\* the switch of visitBinaryExpr on the two operand values
Interpreter_binary(st, operator, left, right) ==
    LET checked == Interpreter_checkNumberOperands(operator, left, right)
        numeric(v) == IF checked # NoError THEN Exc(st, checked) ELSE Val(st, v)
        nan == Number(0, 0) \in {left, right}
        \* the sign of left - right
        compare == left.n * right.d - right.n * left.d
        sum(a, b) == IF a.d = 0 /\ a = b THEN a
                     ELSE Number(a.n * b.d + b.n * a.d, a.d * b.d)
    IN CASE operator.type = "Greater" -> numeric(Bool(~nan /\ compare > 0))
         [] operator.type = "GreaterEqual" -> numeric(Bool(~nan /\ compare >= 0))
         [] operator.type = "Less" -> numeric(Bool(~nan /\ compare < 0))
         [] operator.type = "LessEqual" -> numeric(Bool(~nan /\ compare <= 0))
         [] operator.type = "Minus" ->
              numeric(sum(left, Number(-right.n, right.d)))
         [] operator.type = "BangEqual" -> Val(st, Bool(~Interpreter_isEqual(left, right)))
         [] operator.type = "EqualEqual" -> Val(st, Bool(Interpreter_isEqual(left, right)))
         [] operator.type = "Slash" ->
              numeric(Number(left.n * right.d, left.d * right.n))
         [] operator.type = "Star" ->
              numeric(Number(left.n * right.n, left.d * right.d))
         [] operator.type = "Plus" ->
              IF left.t = "num" /\ right.t = "num"
              THEN Val(st, sum(left, right))
              ELSE IF left.t = "str" /\ right.t = "str"
              THEN Val(st, Str(left.v \o right.v))
              ELSE Exc(st, RuntimeError("Operands must be two numbers or two strings",
                                        operator))
         [] OTHER -> Val(st, Nil)

\* findMethod asking the superclass before the class itself
RECURSIVE LoxClass_findMethodSuperFirst(_, _)
LoxClass_findMethodSuperFirst(klass, name) ==
    LET inherited == IF klass.superclass # Null
                     THEN LoxClass_findMethodSuperFirst(klass.superclass, name)
                     ELSE Null
    IN IF inherited # Null THEN inherited
       ELSE IF In(name, klass.methods) THEN Lookup(klass.methods, name)
       ELSE Null

\* if (name in this.methods) return this.methods[name]
\* if (this.superclass !== null) return this.superclass.findMethod(name)
\* return null
RECURSIVE LoxClass_findMethod(_, _)
LoxClass_findMethod(klass, name) ==
    IF In(name, klass.methods) THEN Lookup(klass.methods, name)
    ELSE IF klass.superclass # Null THEN LoxClass_findMethod(klass.superclass, name)
    ELSE Null

LoxFunction_arity(fun) == Len(fun.declaration.params)

LoxClass_arity(klass) ==
    LET initializer == LoxClass_findMethod(klass, "init") IN
    IF initializer = Null THEN 0 ELSE LoxFunction_arity(initializer)

LoxCallable_arity(callee) ==
    CASE callee.t = "clock" -> 0
      [] callee.t = "function" -> LoxFunction_arity(callee)
      [] callee.t = "class" -> LoxClass_arity(callee)

\* bind(instance): the state with the new environment, and the bound function
LoxFunction_bind(st, fun, instance) ==
    LET st1 == Environment_new(st, fun.closure)
        environment == Len(st1.envs)
    IN Val(Environment_define(st1, environment, "this", instance),
           LoxFunction(fun.declaration, environment, fun.isInitializer))

\* a lookup that walks the environments from the active one, whatever the
\* resolver recorded
Interpreter_lookupVariableDynamic(st, name, expr) ==
    Environment_get(st, st.environment, name)

Interpreter_lookupVariable(st, name, expr) ==
    IF expr.id \in DOMAIN st.locals
    THEN Environment_getAt(st, st.environment, st.locals[expr.id], name)
    ELSE Environment_get(st, Globals, name)

\* The methods below call each other through the objects: this.evaluate,
\* this.execute, interpreter.executeBlock, callee.call.  Interpreter_method
\* is that call, by the name of the method; a and b are its arguments (b is
\* Null for a method of one argument).
RECURSIVE Interpreter_method(_, _, _, _)

\* expr.args.map((arg) => this.evaluate(arg)); val is the list of values
Interpreter_evaluateAll(st, exprs, values) ==
    IF exprs = <<>> THEN Val(st, values)
    ELSE LET r == Interpreter_method("evaluate", st, Head(exprs), Null) IN
         IF r.exc # NoError THEN r
         ELSE Interpreter_method("evaluateAll", r.st, Tail(exprs), Append(values, r.val))

Interpreter_visitBinaryExpr(st, expr) ==
    LET left == Interpreter_method("evaluate", st, expr.left, Null) IN
    IF left.exc # NoError THEN left
    ELSE LET right == Interpreter_method("evaluate", left.st, expr.right, Null) IN
         IF right.exc # NoError THEN right
         ELSE Interpreter_binary(right.st, expr.operator, left.val, right.val)

Interpreter_visitUnaryExpr(st, expr) ==
    LET right == Interpreter_method("evaluate", st, expr.right, Null) IN
    IF right.exc # NoError THEN right
    ELSE CASE expr.operator.type = "Bang" ->
                Val(right.st, Bool(~Interpreter_isTruthy(right.val)))
           [] expr.operator.type = "Minus" ->
                LET checked == Interpreter_checkNumberOperand(expr.operator, right.val)
                IN IF checked # NoError THEN Exc(right.st, checked)
                   ELSE Val(right.st, Number(-right.val.n, right.val.d))
           [] OTHER -> Val(right.st, Nil)

Interpreter_visitAssignExpr(st, expr) ==
    LET value == Interpreter_method("evaluate", st, expr.value, Null) IN
    IF value.exc # NoError THEN value
    ELSE LET a == IF expr.id \in DOMAIN value.st.locals
                  THEN Environment_assignAt(value.st, value.st.environment,
                                            value.st.locals[expr.id], expr.name, value.val)
                  ELSE Environment_assign(value.st, Globals, expr.name, value.val)
         IN IF a.exc # NoError THEN a ELSE Val(a.st, value.val)

\* visitLogicalExpr returning the boolean the left operand decided
Interpreter_visitLogicalExprCoercing(st, expr) ==
    LET left == Interpreter_method("evaluate", st, expr.left, Null) IN
    IF left.exc # NoError THEN left
    ELSE IF expr.operator.type = "Or" /\ Interpreter_isTruthy(left.val)
    THEN Val(left.st, Bool(TRUE))
    ELSE IF expr.operator.type # "Or" /\ ~Interpreter_isTruthy(left.val)
    THEN Val(left.st, Bool(FALSE))
    ELSE Interpreter_method("evaluate", left.st, expr.right, Null)

Interpreter_visitLogicalExpr(st, expr) ==
    LET left == Interpreter_method("evaluate", st, expr.left, Null) IN
    IF left.exc # NoError THEN left
    ELSE IF expr.operator.type = "Or" /\ Interpreter_isTruthy(left.val) THEN left
    ELSE IF expr.operator.type # "Or" /\ ~Interpreter_isTruthy(left.val) THEN left
    ELSE Interpreter_method("evaluate", left.st, expr.right, Null)

\* visitCallExpr without the comparison of args.length with callee.arity()
Interpreter_visitCallExprAnyArity(st, expr) ==
    LET callee == Interpreter_method("evaluate", st, expr.callee, Null) IN
    IF callee.exc # NoError THEN callee
    ELSE LET args == Interpreter_method("evaluateAll", callee.st, expr.args, <<>>) IN
    IF args.exc # NoError THEN args
    ELSE IF ~IsCallable(callee.val)
    THEN Exc(args.st, RuntimeError("Can only call functions and classes", expr.paren))
    ELSE Interpreter_method("call", args.st, callee.val, args.val)

Interpreter_visitCallExpr(st, expr) ==
    LET callee == Interpreter_method("evaluate", st, expr.callee, Null) IN
    IF callee.exc # NoError THEN callee
    ELSE LET args == Interpreter_method("evaluateAll", callee.st, expr.args, <<>>) IN
    IF args.exc # NoError THEN args
    ELSE IF ~IsCallable(callee.val)
    THEN Exc(args.st, RuntimeError("Can only call functions and classes", expr.paren))
    ELSE IF Len(args.val) # LoxCallable_arity(callee.val)
    THEN Exc(args.st,
             RuntimeError("Expected " \o NatToString(LoxCallable_arity(callee.val))
                          \o " arguments but got " \o NatToString(Len(args.val)),
                          expr.paren))
    ELSE Interpreter_method("call", args.st, callee.val, args.val)

\* LoxInstance.get(name)
LoxInstance_get(st, object, name) ==
    LET instance == st.instances[object.ref] IN
    IF In(name.lexeme, instance.fields) THEN Val(st, Lookup(instance.fields, name.lexeme))
    ELSE LET method == LoxClass_findMethod(instance.klass, name.lexeme) IN
         IF method # Null
         THEN IF method.t = "host" THEN Val(st, method)
              ELSE LoxFunction_bind(st, method, object)
         ELSE Exc(st, RuntimeError("Undefined property " \o name.lexeme, name))

\* LoxInstance.set(name, value)
LoxInstance_set(st, object, name, value) ==
    [st EXCEPT !.instances[object.ref].fields = Put(@, name.lexeme, value)]

Interpreter_visitGetExpr(st, expr) ==
    LET object == Interpreter_method("evaluate", st, expr.object, Null) IN
    IF object.exc # NoError THEN object
    ELSE IF object.val.t = "instance" THEN LoxInstance_get(object.st, object.val, expr.name)
    ELSE Exc(object.st, RuntimeError("Only class instances have properties", expr.name))

Interpreter_visitSetExpr(st, expr) ==
    LET object == Interpreter_method("evaluate", st, expr.object, Null) IN
    IF object.exc # NoError THEN object
    ELSE IF object.val.t # "instance"
    THEN Exc(object.st, RuntimeError("Only class instances have fields", expr.name))
    ELSE LET value == Interpreter_method("evaluate", object.st, expr.value, Null) IN
         IF value.exc # NoError THEN value
         ELSE Val(LoxInstance_set(value.st, object.val, expr.name, value.val), value.val)

\* evaluate(expr): expr.accept(this)
Interpreter_evaluate(st, expr) ==
    CASE expr.type = "Binary" -> Interpreter_visitBinaryExpr(st, expr)
      [] expr.type = "Grouping" -> Interpreter_method("evaluate", st, expr.expression, Null)
      [] expr.type = "Literal" -> Val(st, expr.value)
      [] expr.type = "Unary" -> Interpreter_visitUnaryExpr(st, expr)
      [] expr.type = "Variable" -> Interpreter_lookupVariable(st, expr.name, expr)
      [] expr.type = "Assign" -> Interpreter_visitAssignExpr(st, expr)
      [] expr.type = "Logical" -> Interpreter_visitLogicalExpr(st, expr)
      [] expr.type = "Call" -> Interpreter_visitCallExpr(st, expr)
      [] expr.type = "Get" -> Interpreter_visitGetExpr(st, expr)
      [] expr.type = "Set" -> Interpreter_visitSetExpr(st, expr)
      [] expr.type = "This" -> Interpreter_lookupVariable(st, expr.keyword, expr)

Interpreter_visitPrintStmt(st, stmt) ==
    LET value == Interpreter_method("evaluate", st, stmt.expression, Null) IN
    IF value.exc # NoError THEN value
    ELSE LET text == Interpreter_stringify(value.st, value.val) IN
         IF text.exc # NoError THEN text
         ELSE Val([value.st EXCEPT !.output = Append(@, text.val)], Nil)

Interpreter_visitVarStmt(st, stmt) ==
    LET value == IF stmt.initializer # Null THEN Interpreter_method("evaluate", st, stmt.initializer, Null)
                 ELSE Val(st, Nil)
    IN IF value.exc # NoError THEN value
       ELSE Val(Environment_define(value.st, value.st.environment, stmt.name.lexeme,
                                   value.val), Nil)

Interpreter_visitBlockStmt(st, stmt) ==
    LET st1 == Environment_new(st, st.environment) IN
    Interpreter_method("executeBlock", st1, stmt.statements, Len(st1.envs))

Interpreter_visitIfStmt(st, stmt) ==
    LET condition == Interpreter_method("evaluate", st, stmt.condition, Null) IN
    IF condition.exc # NoError THEN condition
    ELSE IF Interpreter_isTruthy(condition.val)
    THEN Interpreter_method("execute", condition.st, stmt.thenBranch, Null)
    ELSE IF stmt.elseBranch # Null THEN Interpreter_method("execute", condition.st, stmt.elseBranch, Null)
    ELSE Val(condition.st, Nil)

\* while (isTruthy(evaluate(stmt.condition))) execute(stmt.body)
Interpreter_whileLoop(st, stmt) ==
    LET condition == Interpreter_method("evaluate", st, stmt.condition, Null) IN
    IF condition.exc # NoError THEN condition
    ELSE IF Interpreter_isTruthy(condition.val)
    THEN LET body == Interpreter_method("execute", condition.st, stmt.body, Null) IN
         IF body.exc # NoError THEN body ELSE Interpreter_method("whileLoop", body.st, stmt, Null)
    ELSE Val(condition.st, Nil)

Interpreter_visitFunctionStmt(st, stmt) ==
    Val(Environment_define(st, st.environment, stmt.name.lexeme,
                           LoxFunction(stmt, st.environment, FALSE)), Nil)

Interpreter_visitReturnStmt(st, stmt) ==
    LET value == IF stmt.value # Null THEN Interpreter_method("evaluate", st, stmt.value, Null)
                 ELSE Val(st, Nil)
    IN IF value.exc # NoError THEN value
       ELSE Exc(Note(value.st, [ev |-> "return", depth |-> value.st.depth,
                                value |-> value.val]),
                Return(value.val))

\* methods is the Record built by stmt.methods.forEach
Interpreter_visitClassStmt(st, stmt) ==
    LET st1 == Environment_define(st, st.environment, stmt.name.lexeme, Nil)
        RECURSIVE methods(_, _)
        methods(rest, record) ==
            IF rest = <<>> THEN record
            ELSE LET method == Head(rest) IN
                 methods(Tail(rest),
                     Put(record, method.name.lexeme,
                         LoxFunction(method, st1.environment,
                                     method.name.lexeme = "init")))
        klass == LoxClass(stmt.name.lexeme, methods(stmt.methods, EmptyMap))
    IN Environment_assign(st1, st1.environment, stmt.name, klass)

\* execute(stmt): stmt.accept(this)
Interpreter_execute(st0, stmt) ==
    IF st0.steps >= MaxSteps THEN Exc(st0, HostError("Exhausted"))
    ELSE LET st == Note([st0 EXCEPT !.steps = @ + 1],
                        [ev |-> "execute", depth |-> st0.depth, stmt |-> stmt.type])
    IN CASE stmt.type = "Expression" ->
                LET r == Interpreter_method("evaluate", st, stmt.expression, Null) IN
                IF r.exc # NoError THEN r ELSE Val(r.st, Nil)
         [] stmt.type = "PrintStmt" -> Interpreter_visitPrintStmt(st, stmt)
         [] stmt.type = "Var" -> Interpreter_visitVarStmt(st, stmt)
         [] stmt.type = "Block" -> Interpreter_visitBlockStmt(st, stmt)
         [] stmt.type = "If" -> Interpreter_visitIfStmt(st, stmt)
         [] stmt.type = "While" -> Interpreter_method("whileLoop", st, stmt, Null)
         [] stmt.type = "Function" -> Interpreter_visitFunctionStmt(st, stmt)
         [] stmt.type = "Return" -> Interpreter_visitReturnStmt(st, stmt)
         [] stmt.type = "Class" -> Interpreter_visitClassStmt(st, stmt)

\* for (const stmt of statements) stmt && this.execute(stmt)
Interpreter_executeAll(st, statements) ==
    IF statements = <<>> THEN Val(st, Nil)
    ELSE LET r == Interpreter_method("execute", st, Head(statements), Null) IN
         IF r.exc # NoError THEN r ELSE Interpreter_method("executeAll", r.st, Tail(statements), Null)

\* an executeBlock that restores the environment only at the normal end
Interpreter_executeBlockWithoutFinally(st, statements, environment) ==
    LET previousEnvironment == st.environment
        r == Interpreter_method("executeAll", [st EXCEPT !.environment = environment], statements, Null)
    IN IF r.exc # NoError THEN r ELSE [r EXCEPT !.st.environment = previousEnvironment]

\* try { this.environment = environment; ... } finally { this.environment = previous }
Interpreter_executeBlock(st, statements, environment) ==
    LET previousEnvironment == st.environment
        r == Interpreter_method("executeAll", [st EXCEPT !.environment = environment], statements, Null)
    IN [r EXCEPT !.st.environment = previousEnvironment]

\* a call that yields the carried value also for an initializer
LoxFunction_callYieldingCarried(st, fun, args) ==
    IF st.depth >= MaxDepth THEN Exc(st, HostError("RangeError")) ELSE
    LET st1 == Environment_new(st, fun.closure)
        environment == Len(st1.envs)
        params == fun.declaration.params
        RECURSIVE define(_, _)
        define(s, i) ==
            IF i > Len(params) THEN s
            ELSE define(Environment_define(s, environment, params[i].lexeme,
                                           IF i <= Len(args) THEN args[i] ELSE Undefined),
                        i + 1)
        st2 == define(st1, 1)
        st3 == Note([st2 EXCEPT !.depth = @ + 1],
                    [ev |-> "call", depth |-> st2.depth + 1,
                     name |-> fun.declaration.name.lexeme])
        r == Interpreter_method("executeBlock", st3, fun.declaration.body, environment)
        left(how, value) ==
            Note([r.st EXCEPT !.depth = @ - 1],
                 [ev |-> "left", depth |-> r.st.depth, how |-> how, value |-> value,
                  isInitializer |-> fun.isInitializer,
                  this |-> IF fun.isInitializer
                           THEN Lookup(r.st.envs[fun.closure].values, "this") ELSE Nil])
    IN IF r.exc # NoError
       THEN IF r.exc.name = "Return"
            THEN Val(left("return", r.exc.value), r.exc.value)
            ELSE Exc(left("throw", Nil), r.exc)
       ELSE Val(left("end", Nil), Nil)

\* the parameter loop is
\* for (const [i, param] of params.entries()) environment.define(param.lexeme, args[i])
LoxFunction_call(st, fun, args) ==
    IF st.depth >= MaxDepth THEN Exc(st, HostError("RangeError")) ELSE
    LET st1 == Environment_new(st, fun.closure)
        environment == Len(st1.envs)
        params == fun.declaration.params
        RECURSIVE define(_, _)
        define(s, i) ==
            IF i > Len(params) THEN s
            ELSE define(Environment_define(s, environment, params[i].lexeme,
                                           IF i <= Len(args) THEN args[i] ELSE Undefined),
                        i + 1)
        st2 == define(st1, 1)
        st3 == Note([st2 EXCEPT !.depth = @ + 1],
                    [ev |-> "call", depth |-> st2.depth + 1,
                     name |-> fun.declaration.name.lexeme])
        r == Interpreter_method("executeBlock", st3, fun.declaration.body, environment)
        left(how, value) ==
            Note([r.st EXCEPT !.depth = @ - 1],
                 [ev |-> "left", depth |-> r.st.depth, how |-> how, value |-> value,
                  isInitializer |-> fun.isInitializer,
                  this |-> IF fun.isInitializer
                           THEN Lookup(r.st.envs[fun.closure].values, "this") ELSE Nil])
    IN IF r.exc # NoError
       THEN IF r.exc.name = "Return"
            THEN IF fun.isInitializer
                 THEN LET this == Environment_getThis(r.st, fun.closure) IN
                      Val(left("return", this), this)
                 ELSE Val(left("return", r.exc.value), r.exc.value)
            ELSE Exc(left("throw", Nil), r.exc)
       ELSE IF fun.isInitializer
       THEN LET this == Environment_getThis(r.st, fun.closure) IN
            Val(left("end", this), this)
       ELSE Val(left("end", Nil), Nil)

\* call that creates the instance and leaves the initializer alone
LoxClass_callWithoutInit(st, klass, args) ==
    LET st1 == [st EXCEPT !.instances = Append(@, [klass |-> klass, fields |-> EmptyMap])]
    IN Val(st1, InstanceRef(Len(st1.instances)))

LoxClass_call(st, klass, args) ==
    LET st1 == [st EXCEPT !.instances = Append(@, [klass |-> klass, fields |-> EmptyMap])]
        instance == InstanceRef(Len(st1.instances))
        initializer == LoxClass_findMethod(klass, "init")
    IN IF initializer # Null
       THEN LET bound == LoxFunction_bind(st1, initializer, instance)
                r == Interpreter_method("LoxFunction.call", bound.st, bound.val, args)
            IN IF r.exc # NoError THEN r ELSE Val(r.st, instance)
       ELSE Val(st1, instance)

\* callee.call(this, args)
LoxCallable_call(st, callee, args) ==
    CASE callee.t = "clock" -> Val(st, Num(st.now))
      [] callee.t = "function" -> Interpreter_method("LoxFunction.call", st, callee, args)
      [] callee.t = "class" -> Interpreter_method("LoxClass.call", st, callee, args)

\* an interpret that reports an error and goes on with the next statement
Interpreter_interpretContinuing(st, reporter, statements) ==
    LET RECURSIVE loop(_, _, _, _)
        loop(s, rep, ran, first) ==
            IF ran >= Len(statements)
            THEN [st |-> s, ran |-> ran, caught |-> first, exc |-> NoError,
                  reporter |-> rep]
            ELSE LET r == Interpreter_method("execute", s, statements[ran + 1], Null) IN
                 IF r.exc # NoError
                 THEN loop(r.st, ErrorReporter_report(rep, r.exc), ran + 1,
                           IF first = NoError THEN r.exc ELSE first)
                 ELSE loop(r.st, rep, ran + 1, first)
    IN loop(st, reporter, 0, NoError)

\* interpret(target: Stmt[]): the catch reports whatever was thrown; ran
\* counts the statements of the list whose execution was started
Interpreter_interpret(st, reporter, statements) ==
    LET RECURSIVE loop(_, _)
        loop(s, ran) ==
            IF ran >= Len(statements) THEN [st |-> s, exc |-> NoError, ran |-> ran]
            ELSE LET r == Interpreter_method("execute", s, statements[ran + 1], Null) IN
                 IF r.exc # NoError THEN [st |-> r.st, exc |-> r.exc, ran |-> ran + 1]
                 ELSE loop(r.st, ran + 1)
        r == loop(st, 0)
    IN [st |-> r.st, ran |-> r.ran, caught |-> r.exc, exc |-> NoError,
        reporter |-> IF r.exc # NoError THEN ErrorReporter_report(reporter, r.exc)
                     ELSE reporter]

\* interpret(target: Expr): nothing is caught here
Interpreter_interpretExpr(st, reporter, expr) ==
    LET value == Interpreter_method("evaluate", st, expr, Null) IN
    IF value.exc # NoError
    THEN [st |-> value.st, exc |-> value.exc, reporter |-> reporter]
    ELSE LET text == Interpreter_stringify(value.st, value.val) IN
         IF text.exc # NoError
         THEN [st |-> value.st, exc |-> text.exc, reporter |-> reporter]
         ELSE [st |-> [value.st EXCEPT !.output = Append(@, text.val)],
               exc |-> NoError, reporter |-> reporter]

Interpreter_method(name, st, a, b) ==
    CASE name = "evaluate" -> Interpreter_evaluate(st, a)
      [] name = "evaluateAll" -> Interpreter_evaluateAll(st, a, b)
      [] name = "execute" -> Interpreter_execute(st, a)
      [] name = "executeAll" -> Interpreter_executeAll(st, a)
      [] name = "executeBlock" -> Interpreter_executeBlock(st, a, b)
      [] name = "whileLoop" -> Interpreter_whileLoop(st, a)
      [] name = "call" -> LoxCallable_call(st, a, b)
      [] name = "LoxFunction.call" -> LoxFunction_call(st, a, b)
      [] name = "LoxClass.call" -> LoxClass_call(st, a, b)
      [] name = "interpret" -> Interpreter_interpret(st, a, b)
      [] name = "interpretExpr" -> Interpreter_interpretExpr(st, a, b)

(***************************************************************************)
(* Inputs.  A script is a file's text; a REPL session is a sequence of     *)
(* lines.  The family "programs" holds texts written for the behaviours of *)
(* the pipeline, the family "tokens" every text of at most MaxWords words. *)
(***************************************************************************)

\* the most lines a REPL session of the family "programs" reads
MaxLines == 2

\* the most words a text of the family "tokens" has
MaxWords == 4

ScopeProgram ==
    "var a = \"global\"; { fun f(){ print a; } var a = \"local\"; f(); }"

CounterProgram ==
    "fun makeCounter() { var i = 0; fun count() { i = i + 1; print i; } return count; } "
    \o "var counter = makeCounter(); counter(); counter();"

ReturnProgram ==
    "fun g() { } fun f(n) { while (true) { if (n > 0) { { return n; } } return; } } "
    \o "fun h(n) { g(); return f(n) + 1; } print f(0); print g(); print h(1);"

\* ScopeProgram with the function called before and after the local
\* declaration, and with the block being a function body
ScopePrograms ==
    {ScopeProgram,
     "var a = \"global\"; { fun f(){ print a; } f(); var a = \"local\"; f(); f(); }",
     "var a = \"global\"; fun g() { fun f(){ print a; } var a = \"local\"; f(); } g(); g();"}

ClassProgram == "class A { init() { return; } } var a = A(); print a.init();"

\* a method that reads this, called on a new instance
ThisProgram == "class A { m() { print this; } } A().m();"

\* this read after a class body, outside any class
ThisOutsideProgram == "class A { m() { } } print this;"

ClassPrograms == {ClassProgram, ThisProgram, ThisOutsideProgram}

\* a program whose statements `text` stand at global scope or in a local
\* scope: a block, a function body, a block in a function body, a block
\* inside a block that declares a as well
Scopes == {"global", "block", "function", "nested", "shadowing"}

Enclose(scope, text) ==
    "print 1; "
    \o CASE scope = "global" -> text
          [] scope = "block" -> "{ " \o text \o " }"
          [] scope = "function" -> "fun f() { " \o text \o " } f();"
          [] scope = "nested" -> "fun f() { { " \o text \o " } } f();"
          [] scope = "shadowing" -> "var a = 1; { var a = 2; { " \o text \o " } }"

\* declarations whose initializer reads the variable being declared
SelfInitializers == {"var a = a;", "var b = 1 + b;"}

SelfInitializerPrograms ==
    {Enclose(scope, text) : scope \in Scopes, text \in SelfInitializers}

\* declarations, with the number of times a name is declared again in the
\* scope the text stands in (same) and in the scope of a function of the
\* text, which its parameters and its body share (inner)
Declarations ==
    {[text |-> "var a; var a;", same |-> 1, inner |-> 0],
     [text |-> "var a; var b;", same |-> 0, inner |-> 0],
     [text |-> "var a; fun a() { }", same |-> 1, inner |-> 0],
     [text |-> "fun a() { } var a;", same |-> 1, inner |-> 0],
     [text |-> "var a; var a; var a;", same |-> 2, inner |-> 0],
     [text |-> "var a; { var a; }", same |-> 0, inner |-> 0],
     [text |-> "fun g(a, a) { }", same |-> 0, inner |-> 1],
     [text |-> "fun g(a) { var a; }", same |-> 0, inner |-> 1],
     [text |-> "fun g(a) { { var a; } }", same |-> 0, inner |-> 0],
     [text |-> "var a; fun g(a) { var b; }", same |-> 0, inner |-> 0],
     [text |-> "fun g(g) { } var g;", same |-> 1, inner |-> 0]}

DeclarationPrograms ==
    {Enclose(scope, d.text) : scope \in Scopes, d \in Declarations}

\* assignments to a local declared 0, 1 and 2 scopes out
AssignPrograms ==
    {"{ var a = 1; a = 2; print a; }",
     "{ var a = 1; { a = 2; print a; } print a; }",
     "{ var a = 1; { var b = 1; { a = 2; } } print a; }"}

\* a read of a name declared in an inner and in an outer local scope, from
\* the inner scope and from a scope inside it
ShadowPrograms ==
    {"{ var a = 1; { var a = 2; print a; } }",
     "{ var a = 1; { var a = 2; { print a; } } }"}

\* a runtime error raised inside blocks inside a call inside blocks
DeepErrorProgram == "fun f() { { print x; } } { { f(); } } print 1;"

\* for loops: the text before the loop, whether the loop is the body of a
\* function f, the three clauses (the initializer with its semicolon, empty
\* when omitted), the body, and the text after the loop or after f
ForCases ==
    {[before |-> "", inFunction |-> FALSE, initializer |-> "var i = 0;",
      condition |-> "i < 2", increment |-> "i = i + 1", body |-> "print i;",
      after |-> "print i;"],
     [before |-> "", inFunction |-> FALSE, initializer |-> "var i = 0;",
      condition |-> "i < 0", increment |-> "", body |-> "print i;",
      after |-> "print i;"],
     [before |-> "var i = 0;", inFunction |-> FALSE, initializer |-> "",
      condition |-> "i < 2", increment |-> "i = i + 1", body |-> "print i;",
      after |-> "print i;"],
     [before |-> "var i = 0;", inFunction |-> FALSE, initializer |-> "i = 1;",
      condition |-> "i < 2", increment |-> "", body |-> "{ print i; i = 2; }",
      after |-> "print i;"],
     [before |-> "", inFunction |-> TRUE, initializer |-> "",
      condition |-> "", increment |-> "", body |-> "return 1;",
      after |-> "print f();"],
     [before |-> "", inFunction |-> TRUE, initializer |-> "var i = 0;",
      condition |-> "", increment |-> "", body |-> "return i;",
      after |-> "print f(); print i;"],
     [before |-> "var i = 0;", inFunction |-> TRUE, initializer |-> "",
      condition |-> "", increment |-> "i = i + 1", body |-> "if (i > 1) return i;",
      after |-> "print f();"],
     [before |-> "var i = 7;", inFunction |-> FALSE, initializer |-> "var i = 0;",
      condition |-> "i < 0", increment |-> "", body |-> "print i;",
      after |-> "print i;"]}

ForText(case) ==
    LET loop == "for (" \o (IF case.initializer = "" THEN ";" ELSE case.initializer)
                \o " " \o case.condition \o "; " \o case.increment \o ") " \o case.body
    IN case.before \o " "
       \o (IF case.inFunction THEN "fun f() { " \o loop \o " }" ELSE loop)
       \o " " \o case.after

ForPrograms == {ForText(case) : case \in ForCases}

Scripts ==
    ScopePrograms \cup SelfInitializerPrograms \cup DeclarationPrograms \cup
    AssignPrograms \cup ShadowPrograms \cup {DeepErrorProgram} \cup
    ClassPrograms \cup ForPrograms \cup
    {ScopeProgram, CounterProgram, ReturnProgram,
     "var a = 1; @ print a;", "print \"abc", "print 1; return 1;",
     "print 1; print ; print 2;", "print 1; print x; print 2;",
     "fun f() { f(); } f(); print 1;", "{ var a = 1; var a = 2; } print 3;",
     "print 7 / 2; print -nil; print 3;", "1 = 2; print 1;", ""}

ReplLines ==
    {"var a = 3; a + 3", "a + 25", "print x; print 2; 1", "1 2", " a = a + 1; ",
     "print a", "@", "", "exit", "fun f() { return a; } f()", "return 1;"}

Words == {"print", "a", "1", "=", ";", "{", "}"}

RECURSIVE WordTexts(_)
WordTexts(n) ==
    IF n = 0 THEN {""}
    ELSE LET shorter == WordTexts(n - 1) IN
         shorter \cup {IF text = "" THEN w ELSE text \o " " \o w :
                           text \in shorter, w \in Words}

Files(inputs) == IF inputs = "tokens" THEN WordTexts(MaxWords) \cup {ClassProgram}
                 ELSE Scripts

Lines(inputs) == IF inputs = "tokens" THEN WordTexts(MaxWords) \cup {"exit"}
                 ELSE ReplLines

LineLimit(inputs) == IF inputs = "tokens" THEN 1 ELSE MaxLines

(***************************************************************************)
(* The class-enabled parser.  parser.ts has no rule for class              *)
(* declarations, property access or this; the parser that the resolver and *)
(* the interpreter were written for is described by its output on          *)
(* the texts of ClassPrograms, built from the scanner's tokens.            *)
(***************************************************************************)

Parser_parseClasses(p) ==
    LET token(i) == p.tokens[i]
        id(i) == [run |-> p.run, at |-> i]
    IN [p |-> [p EXCEPT !.current = Len(p.tokens) - 1],
        statements |->
            CASE token(8).type = "Return" ->
                 << ClassStmt(token(2), Null,
                              <<FunctionStmt(token(4), <<>>, <<ReturnStmt(token(8), Null)>>)>>),
                    VarStmt(token(13), CallExpr(VariableExpr(token(15), id(15)), token(17), <<>>)),
                    PrintStmt(CallExpr(GetExpr(VariableExpr(token(20), id(20)), token(22)),
                                       token(24), <<>>)) >>
              [] token(8).type = "Print" ->
                 << ClassStmt(token(2), Null,
                              <<FunctionStmt(token(4), <<>>,
                                             <<PrintStmt(ThisExpr(token(9), id(9)))>>)>>),
                    ExpressionStmt(
                        CallExpr(GetExpr(CallExpr(VariableExpr(token(13), id(13)),
                                                  token(15), <<>>),
                                         token(17)),
                                 token(19), <<>>)) >>
              [] OTHER ->
                 << ClassStmt(token(2), Null, <<FunctionStmt(token(4), <<>>, <<>>)>>),
                    PrintStmt(ThisExpr(token(11), id(11))) >>,
        spans |-> <<>>]

(***************************************************************************)
(* The process (main.ts, runner.ts).  pc is the position of the process:   *)
(* "ready" before a file or a line is read, then the stages of Runner.run, *)
(* "catch" in the catch block of runFile or of the line handler, "return"  *)
(* after the try statement, "exited" when the process has ended.  obs      *)
(* records what the stages of the current run did.                         *)
(***************************************************************************)

VARIABLES inputs, mode, pc, lineNo, source, tokens, statements, expr, thrown,
          reporter, interpreter, resolver, exitCode, obs

vars == <<inputs, mode, pc, lineNo, source, tokens, statements, expr, thrown,
          reporter, interpreter, resolver, exitCode, obs>>

\* String.prototype.trim, for the white space of the lines read
trim(line) ==
    LET space(c) == c \in {" ", "\t", "\r", "\n"}
        RECURSIVE first(_), last(_)
        first(i) == IF i < Len(line) /\ space(charAt(line, i)) THEN first(i + 1) ELSE i
        last(j) == IF j > 0 /\ space(charAt(line, j - 1)) THEN last(j - 1) ELSE j
    IN IF first(0) >= Len(line) THEN "" ELSE substring(line, first(0), last(Len(line)))

\* what is recorded when Runner.run is entered
Entered(lines) ==
    [lines |-> lines, before |-> interpreter, log |-> Len(reporter.log),
     scan |-> [err |-> NoError, tokens |-> <<>>],
     parse |-> [spans |-> <<>>, cursor |-> 0, failed |-> FALSE, err |-> NoError,
                at |-> 0],
     resolve |-> <<>>, calls |-> <<>>]

InitWith(family) ==
    /\ inputs = family
    /\ mode \in {"script", "repl"}
    /\ pc = "ready"
    /\ lineNo = 0
    /\ source = ""
    /\ tokens = <<>>
    /\ statements = <<>>
    /\ expr = Null
    /\ thrown = NoError
    /\ reporter = ErrorReporter_new
    /\ interpreter = Interpreter_new
    /\ resolver = Resolver_new
    /\ exitCode = <<>>
    /\ obs = [lines |-> <<>>, before |-> Interpreter_new, log |-> 0,
              scan |-> [err |-> NoError, tokens |-> <<>>],
              parse |-> [spans |-> <<>>, cursor |-> 0, failed |-> FALSE,
                         err |-> NoError, at |-> 0],
              resolve |-> <<>>, calls |-> <<>>]

Init == InitWith("programs")

InitTokens == InitWith("tokens")

\* a runner that goes on whatever was reported
Runner_ignoresErrors(rep) == FALSE

\* if (errorReporter.hadSyntaxError) return
Runner_hadSyntaxError(rep) == rep.hadSyntaxError

\* runFile: readFileSync either throws or gives the text that run receives
runFile ==
    /\ mode = "script"
    /\ pc = "ready"
    /\ lineNo' = 1
    /\ \/ /\ thrown' = HostError("ENOENT")
          /\ pc' = "catch"
          /\ obs' = Entered(<<>>)
          /\ UNCHANGED source
       \/ \E text \in Files(inputs) :
            /\ source' = text
            /\ pc' = "scan"
            /\ obs' = Entered(<<text>>)
            /\ UNCHANGED thrown
    /\ UNCHANGED <<inputs, mode, tokens, statements, expr, reporter, interpreter,
                   resolver, exitCode>>

\* rl.on("line"): "exit" closes the interface, whose close handler ends the
\* process; an empty line skips the call of run
Line ==
    /\ mode = "repl"
    /\ pc = "ready"
    /\ lineNo < LineLimit(inputs)
    /\ \E line \in Lines(inputs) :
         /\ lineNo' = lineNo + 1
         /\ source' = trim(line)
         /\ obs' = Entered(Append(obs.lines, line))
         /\ IF trim(line) = "exit" THEN pc' = "exited" /\ exitCode' = <<0>>
            ELSE /\ pc' = IF trim(line) = "" THEN "return" ELSE "scan"
                 /\ UNCHANGED exitCode
    /\ UNCHANGED <<inputs, mode, tokens, statements, expr, thrown, reporter,
                   interpreter, resolver>>

\* rl.on("close"), when the input ends
Close ==
    /\ mode = "repl"
    /\ pc = "ready"
    /\ pc' = "exited"
    /\ exitCode' = <<0>>
    /\ UNCHANGED <<inputs, mode, lineNo, source, tokens, statements, expr, thrown,
                   reporter, interpreter, resolver, obs>>

\* const tokens = scanner.scanTokens()
ScanTokens ==
    /\ pc = "scan"
    /\ LET scanned(r) ==
             /\ obs' = [obs EXCEPT !.scan = [err |-> r.err, tokens |-> r.tokens]]
             /\ IF r.err # NoError
                THEN thrown' = r.err /\ pc' = "catch" /\ UNCHANGED tokens
                ELSE tokens' = r.tokens /\ pc' = "parse" /\ UNCHANGED thrown
       IN scanned(Scanner_scanTokens(source))
    /\ UNCHANGED <<inputs, mode, lineNo, source, statements, expr, reporter,
                   interpreter, resolver, exitCode>>

\* const statements = parser.parse(); a class program goes to the class-enabled
\* parser
Parse ==
    /\ pc = "parse"
    /\ mode = "script"
    /\ source \notin ClassPrograms
    /\ LET parsed(r) ==
             /\ statements' = r.statements
             /\ reporter' = r.p.reporter
             /\ obs' = [obs EXCEPT !.parse.spans = r.spans, !.parse.at = r.p.current]
             /\ pc' = IF Runner_hadSyntaxError(r.p.reporter) THEN "return"
                      ELSE "resolve"
       IN parsed(Parser_rule("parse", Parser_new(tokens, reporter, lineNo), Null))
    /\ UNCHANGED <<inputs, mode, lineNo, source, tokens, expr, thrown, interpreter,
                   resolver, exitCode>>

ParseClasses ==
    /\ pc = "parse"
    /\ mode = "script"
    /\ source \in ClassPrograms
    /\ LET parsed(r) ==
             /\ statements' = r.statements
             /\ reporter' = r.p.reporter
             /\ obs' = [obs EXCEPT !.parse.spans = r.spans, !.parse.at = r.p.current]
             /\ pc' = IF Runner_hadSyntaxError(r.p.reporter) THEN "return"
                      ELSE "resolve"
       IN parsed(Parser_parseClasses(Parser_new(tokens, reporter, lineNo)))
    /\ UNCHANGED <<inputs, mode, lineNo, source, tokens, expr, thrown, interpreter,
                   resolver, exitCode>>

\* const [statements, expr] = parser.parseRepl()
ParseRepl ==
    /\ pc = "parse"
    /\ mode = "repl"
    /\ LET parsed(r) ==
             /\ reporter' = r.p.reporter
             /\ obs' = [obs EXCEPT !.parse = [spans |-> r.spans, cursor |-> r.cursor,
                                              failed |-> r.failed, err |-> r.err,
                                              at |-> r.p.current]]
             /\ statements' = r.statements
             /\ expr' = r.expr
             /\ IF r.err # NoError
                THEN thrown' = r.err /\ pc' = "catch"
                ELSE /\ pc' = IF Runner_hadSyntaxError(r.p.reporter) THEN "return"
                              ELSE "resolve"
                     /\ UNCHANGED thrown
       IN parsed(Parser_rule("parseRepl", Parser_new(tokens, reporter, lineNo), Null))
    /\ UNCHANGED <<inputs, mode, lineNo, source, tokens, interpreter, resolver,
                   exitCode>>

\* this.resolver.resolve(statements), and in REPL mode
\* if (statements.length > 0) resolve(statements); if (expr !== null) resolve(expr)
Resolve ==
    /\ pc = "resolve"
    /\ LET resolved(r) ==
             /\ resolver' = [scopes |-> r.scopes, currentFunction |-> r.currentFunction,
                             currentClass |-> r.currentClass]
             /\ reporter' = r.reporter
             /\ interpreter' = [interpreter EXCEPT !.locals = r.locals]
             /\ obs' = [obs EXCEPT !.resolve = r.trace]
             /\ pc' = IF Runner_hadSyntaxError(r.reporter) THEN "return"
                      ELSE "interpret"
           expression(r) ==
             resolved(IF mode = "repl" /\ expr # Null THEN Resolver_resolve(r, expr)
                      ELSE r)
           list(r) ==
             expression(IF mode = "script" \/ Len(statements) > 0
                        THEN Resolver_resolveAll(r, statements) ELSE r)
       IN list(resolver @@ [reporter |-> reporter, locals |-> interpreter.locals,
                            trace |-> <<>>])
    /\ UNCHANGED <<inputs, mode, lineNo, source, tokens, statements, expr, thrown,
                   exitCode>>

\* this.interpreter.interpret(statements), in REPL mode under
\* if (statements.length > 0)
Interpret ==
    /\ pc = "interpret"
    /\ pc' = IF mode = "script" THEN "return" ELSE "expr"
    /\ IF mode = "script" \/ Len(statements) > 0
       THEN LET returned(r) ==
                    /\ interpreter' = r.st
                    /\ reporter' = r.reporter
                    /\ obs' = [obs EXCEPT !.calls =
                                  Append(@, [target |-> "statements",
                                             from |-> interpreter,
                                             log |-> Len(reporter.log), ran |-> r.ran,
                                             caught |-> r.caught, exc |-> r.exc])]
            IN returned(Interpreter_method("interpret", interpreter, reporter, statements))
       ELSE UNCHANGED <<interpreter, reporter, obs>>
    /\ UNCHANGED <<inputs, mode, lineNo, source, tokens, statements, expr, thrown,
                   resolver, exitCode>>

\* if (expr !== null) this.interpreter.interpret(expr)
InterpretExpr ==
    /\ pc = "expr"
    /\ IF expr # Null
       THEN LET left(r) ==
                    /\ interpreter' = r.st
                    /\ reporter' = r.reporter
                    /\ obs' = [obs EXCEPT !.calls =
                                  Append(@, [target |-> "expr", from |-> interpreter,
                                             log |-> Len(reporter.log), ran |-> 0,
                                             caught |-> NoError, exc |-> r.exc])]
                    /\ IF r.exc # NoError THEN thrown' = r.exc /\ pc' = "catch"
                       ELSE pc' = "return" /\ UNCHANGED thrown
            IN left(Interpreter_method("interpretExpr", interpreter, reporter, expr))
       ELSE pc' = "return" /\ UNCHANGED <<interpreter, reporter, obs, thrown>>
    /\ UNCHANGED <<inputs, mode, lineNo, source, tokens, statements, expr, resolver,
                   exitCode>>

\* catch (error) { errorReporter.report(error as Error) }
Catch ==
    /\ pc = "catch"
    /\ reporter' = ErrorReporter_report(reporter, thrown)
    /\ thrown' = NoError
    /\ pc' = "return"
    /\ UNCHANGED <<inputs, mode, lineNo, source, tokens, statements, expr,
                   interpreter, resolver, exitCode, obs>>

\* the end of runFile: process.exit(64), (65), (70), or the process ends
\* with nothing left to do
Exit ==
    /\ pc = "return"
    /\ mode = "script"
    /\ exitCode' = IF reporter.hadCliError THEN <<64>>
                   ELSE IF reporter.hadSyntaxError THEN <<65>>
                   ELSE IF reporter.hadRuntimeError THEN <<70>>
                   ELSE <<0>>
    /\ pc' = "exited"
    /\ UNCHANGED <<inputs, mode, lineNo, source, tokens, statements, expr, thrown,
                   reporter, interpreter, resolver, obs>>

\* the end of a line handler that leaves the flags as they are
LineEndKeepingFlags ==
    /\ pc = "return"
    /\ mode = "repl"
    /\ pc' = "ready"
    /\ UNCHANGED <<inputs, mode, lineNo, source, tokens, statements, expr, thrown,
                   reporter, interpreter, resolver, exitCode, obs>>

\* the end of the line handler
LineEnd ==
    /\ pc = "return"
    /\ mode = "repl"
    /\ reporter' = [reporter EXCEPT !.hadSyntaxError = FALSE,
                                    !.hadRuntimeError = FALSE]
    /\ pc' = "ready"
    /\ UNCHANGED <<inputs, mode, lineNo, source, tokens, statements, expr, thrown,
                   interpreter, resolver, exitCode, obs>>

Next ==
    \/ runFile
    \/ Line
    \/ Close
    \/ ScanTokens
    \/ Parse
    \/ ParseClasses
    \/ ParseRepl
    \/ Resolve
    \/ Interpret
    \/ InterpretExpr
    \/ Catch
    \/ Exit
    \/ LineEnd

Spec == Init /\ [][Next]_vars

SpecTokens == InitTokens /\ [][Next]_vars

(***************************************************************************)
(* Single methods applied to drawn inputs.  A case names the method and    *)
(* the values it is given; the state is an interpreter whose global        *)
(* environment binds every value of Values under its key, and the          *)
(* expression reads its operands from those variables.                     *)
(***************************************************************************)

Identifier(name) == Token("Identifier", name, Nil, 1)

Variable(name) == VariableExpr(Identifier(name), [run |-> 0, at |-> name])

\* fun f(p1, .., pn) { print "body"; }
FunctionOf(name, n, text) ==
    FunctionStmt(Identifier(name), [i \in 1..n |-> Identifier("p" \o NatToString(i))],
                 <<PrintStmt(LiteralExpr(Str(text)))>>)

\* the node `this` of the initializer below, resolved one scope up
ThisNode == ThisExpr(Token("This", "this", Nil, 1), [run |-> 0, at |-> "this"])

\* init(p1) { this.field = p1; print "init"; return; }
InitOf ==
    FunctionStmt(Identifier("init"), <<Identifier("p1")>>,
                 <<ExpressionStmt(SetExpr(ThisNode, Identifier("field"), Variable("p1"))),
                   PrintStmt(LiteralExpr(Str("init"))),
                   ReturnStmt(Token("Return", "return", Nil, 1), Null)>>)

Values ==
    [nil |-> Nil, true |-> Bool(TRUE), false |-> Bool(FALSE), zero |-> Num(0),
     one |-> Num(1), half |-> Number(1, 2), text |-> Str("a"), empty |-> Str(""),
     clock |-> LoxClockFunction,
     f0 |-> LoxFunction(FunctionOf("f0", 0, "body"), Globals, FALSE),
     f1 |-> LoxFunction(FunctionOf("f1", 1, "body"), Globals, FALSE),
     f2 |-> LoxFunction(FunctionOf("f2", 2, "body"), Globals, FALSE),
     A0 |-> LoxClass("A0", EmptyMap),
     A1 |-> LoxClass("A1", Put(EmptyMap, "init", LoxFunction(InitOf, Globals, TRUE))),
     instance |-> InstanceRef(1)]

\* fun <name>() { print "<name>"; return <variable>; }
Operand(name, variable) ==
    LoxFunction(FunctionStmt(Identifier(name), <<>>,
                    <<PrintStmt(LiteralExpr(Str(name))),
                      ReturnStmt(Token("Return", "return", Nil, 1), Variable(variable))>>),
                Globals, FALSE)

BinaryOperators ==
    [Minus |-> "-", Star |-> "*", Slash |-> "/", Greater |-> ">", GreaterEqual |-> ">=",
     Less |-> "<", LessEqual |-> "<=", Plus |-> "+"]

CallCases ==
    [unit : {"call"}, callee : DOMAIN Values, n : 0..2, nested : BOOLEAN]

BinaryCases ==
    [unit : {"binary"}, operator : DOMAIN BinaryOperators, left : DOMAIN Values,
     right : DOMAIN Values]

LogicalCases ==
    [unit : {"logical"}, operator : {"And", "Or"}, left : DOMAIN Values,
     right : DOMAIN Values]

\* the binary operators of an expression, each with the level of its rule
\* in the chain assignment, logicalOr, logicalAnd, equality, comparison,
\* term, factor
ExprOperators ==
    [Equal |-> "=", Or |-> "or", And |-> "and", EqualEqual |-> "==", Less |-> "<",
     Plus |-> "+", Minus |-> "-", Star |-> "*", Slash |-> "/"]

\* operand (operator operand)*: the first `names` operands are the
\* identifiers a and b, the others the numbers 2, 3, 4, 5 by position; the
\* operand `at` (when it is not 0) is written -x, !x, x(), -x() or, together
\* with the operator and the operand after it, in parentheses
ExpressionCases ==
    {c \in [unit : {"expression"}, operators : UNION {[1..n -> DOMAIN ExprOperators] : n \in 0..3},
            names : 0..2, form : {"plain", "minus", "bang", "call", "minuscall", "group"},
            at : 0..4] :
        /\ c.at <= Len(c.operators) + 1
        /\ Len(c.operators) = 3 => c.at = 0
        /\ (c.form = "plain") = (c.at = 0)
        /\ c.form = "group" => c.at <= Len(c.operators)}

\* the names a method or a property can have in a program
MethodNames == {"m", "n", "k"}

\* a chain of one to three classes, the most derived first, each given by the
\* names it defines, and the name to find
FindMethodCases ==
    [unit : {"findMethod"},
     chain : UNION {[1..n -> SUBSET {"m", "n"}] : n \in 1..3},
     name : MethodNames]

\* <name> = <value>, where zero is a global and u is bound nowhere
AssignCases == [unit : {"assign"}, name : {"zero", "u"}, value : DOMAIN Values]

UnitCases ==
    CallCases \cup BinaryCases \cup LogicalCases \cup ExpressionCases \cup FindMethodCases
    \cup AssignCases

\* the method `name` as the class at position i of a chain defines it:
\* name() { print "<i>"; }
MethodOf(i, name) == LoxFunction(FunctionOf(name, 0, NatToString(i)), Globals, FALSE)

\* the class at position i of a chain, with its superclasses
RECURSIVE ChainClass(_, _)
ChainClass(chain, i) ==
    LoxSubclass("C" \o NatToString(i),
                IF i < Len(chain) THEN ChainClass(chain, i + 1) ELSE Null,
                [name \in chain[i] |-> MethodOf(i, name)])

\* the text of the operand at position i of an expression case
OperandText(case, i) ==
    LET x == IF i <= case.names THEN <<"a", "b">>[i] ELSE <<"2", "3", "4", "5">>[i]
    IN IF case.at # i THEN x
       ELSE CASE case.form = "minus" -> "-" \o x
              [] case.form = "bang" -> "!" \o x
              [] case.form = "call" -> x \o "()"
              [] case.form = "minuscall" -> "-" \o x \o "()"
              [] case.form = "group" -> "(" \o x

\* the text of an expression case
ExpressionText(case) ==
    LET RECURSIVE text(_)
        text(i) ==
            IF i > Len(case.operators) + 1 THEN ""
            ELSE (IF i = 1 THEN "" ELSE " " \o ExprOperators[case.operators[i - 1]] \o " ")
                 \o OperandText(case, i)
                 \o (IF case.form = "group" /\ case.at = i - 1 THEN ")" ELSE "")
                 \o text(i + 1)
    IN text(1)

\* the expression of a case
UnitExpr(case) ==
    CASE case.unit = "call" ->
            CallExpr(Variable(case.callee), Token("RightParen", ")", Nil, 1),
                     [i \in 1..case.n |->
                         IF case.nested /\ i = 1
                         THEN CallExpr(Variable("f0"), Token("RightParen", ")", Nil, 2), <<>>)
                         ELSE LiteralExpr(Num(i))])
      [] case.unit = "binary" ->
            BinaryExpr(Variable(case.left),
                       Token(case.operator, BinaryOperators[case.operator], Nil, 1),
                       Variable(case.right))
      [] case.unit = "logical" ->
            LogicalExpr(CallExpr(Variable("l"), Token("RightParen", ")", Nil, 1), <<>>),
                        Token(case.operator, IF case.operator = "And" THEN "and" ELSE "or",
                              Nil, 1),
                        CallExpr(Variable("r"), Token("RightParen", ")", Nil, 1), <<>>))
      [] case.unit = "assign" ->
            AssignExpr(Identifier(case.name), Variable(case.value),
                       [run |-> 0, at |-> "assign"])
      [] case.unit \in {"expression", "findMethod"} -> Null

\* the interpreter of a case: the globals, one instance of A0 and the
\* side-table entries the resolver makes for the `this` and the p1 of InitOf (an
\* expression case has no class: its side table is empty)
UnitState(case) ==
    LET operands == IF case.unit = "logical"
                    THEN [left |-> Values[case.left], right |-> Values[case.right],
                          l |-> Operand("l", "left"), r |-> Operand("r", "right")]
                    ELSE IF case.unit = "expression"
                    THEN [a |-> Num(0), b |-> Num(1)]
                    ELSE EmptyMap
    IN [Interpreter_new EXCEPT
            !.envs[Globals].values = operands @@ Values @@ @,
            !.instances = <<[klass |-> Values.A0, fields |-> EmptyMap]>>,
            !.locals = IF case.unit = "expression" THEN EmptyMap
                       ELSE Put(Put(EmptyMap, ThisNode.id, 1), Variable("p1").id, 0)]

InitUnits ==
    /\ inputs \in UnitCases
    /\ mode = "unit"
    /\ pc = (IF inputs.unit = "expression" THEN "parse" ELSE "ready")
    /\ lineNo = 0
    /\ source = (IF inputs.unit = "expression" THEN ExpressionText(inputs) ELSE "")
    /\ tokens = (IF inputs.unit = "expression" THEN Scanner_scanTokens(source).tokens
                 ELSE <<>>)
    /\ statements = <<>>
    /\ expr = UnitExpr(inputs)
    /\ thrown = NoError
    /\ reporter = ErrorReporter_new
    /\ interpreter = UnitState(inputs)
    /\ resolver = Resolver_new
    /\ exitCode = <<>>
    /\ obs = [from |-> UnitState(inputs), val |-> Nil, exc |-> NoError, at |-> 0]

\* Parser.expression() on the tokens of the text; obs.at is the cursor it
\* leaves
expression ==
    /\ mode = "unit"
    /\ pc = "parse"
    /\ inputs.unit = "expression"
    /\ LET parsed(r) ==
             /\ expr' = r.node
             /\ thrown' = r.err
             /\ reporter' = r.p.reporter
             /\ obs' = [obs EXCEPT !.at = r.p.current]
             /\ pc' = IF r.err = NoError /\ ~r.p.reporter.hadSyntaxError THEN "ready"
                      ELSE "done"
       IN parsed(Parser_rule("expression", Parser_new(tokens, reporter, lineNo), Null))
    /\ UNCHANGED <<inputs, mode, lineNo, source, tokens, statements, interpreter,
                   resolver, exitCode>>

\* Interpreter.evaluate(expr)
evaluate ==
    /\ mode = "unit"
    /\ pc = "ready"
    /\ inputs.unit \in {"call", "binary", "logical", "expression", "assign"}
    /\ LET returned(r) ==
             /\ interpreter' = r.st
             /\ obs' = [obs EXCEPT !.from = interpreter, !.val = r.val, !.exc = r.exc]
       IN returned(Interpreter_method("evaluate", interpreter, expr, Null))
    /\ pc' = "done"
    /\ UNCHANGED <<inputs, mode, lineNo, source, tokens, statements, expr, thrown,
                   reporter, resolver, exitCode>>

\* klass.findMethod(name) on the most derived class of the chain
findMethod ==
    /\ mode = "unit"
    /\ pc = "ready"
    /\ inputs.unit = "findMethod"
    /\ obs' = [obs EXCEPT !.val = LoxClass_findMethod(ChainClass(inputs.chain, 1),
                                                      inputs.name)]
    /\ pc' = "done"
    /\ UNCHANGED <<inputs, mode, lineNo, source, tokens, statements, expr, thrown,
                   reporter, interpreter, resolver, exitCode>>

NextUnits ==
    \/ expression
    \/ evaluate
    \/ findMethod

SpecUnits == InitUnits /\ [][NextUnits]_vars

(***************************************************************************)
(* Properties                                                              *)
(***************************************************************************)

\* the errors reported since Runner.run was entered with the current text
ReportedInRun == {i \in (obs.log + 1)..Len(reporter.log) : TRUE}

\* a syntax or resolving error of the current text has been reported
StaticErrorReported ==
    /\ mode \in {"script", "repl"}
    /\ \E i \in ReportedInRun : IsSyntaxError(reporter.log[i])

\* C1: once a syntax or resolving error of a text has been reported, in
\* script mode and in REPL mode, Interpreter.interpret is not called for
\* that text and nothing of it is executed: the interpreter stays as it was
\* when Runner.run was entered, but for the resolver's side table.
C1_NoExecutionAfterStaticError ==
    StaticErrorReported =>
        /\ obs.calls = <<>>
        /\ pc \notin {"interpret", "expr"}
        /\ [interpreter EXCEPT !.locals = obs.before.locals] = obs.before

\* print 1; return 1; : the return at top level is a resolving error and
\* the print before it is not executed
C1_Witness ==
    /\ StaticErrorReported
    /\ mode = "script"
    /\ source = "print 1; return 1;"
    /\ pc = "exited"
    /\ exitCode = <<65>>
    /\ interpreter.output = <<>>

\* the arity of each callable of Values, as its declaration reads
ExpectedArity == [clock |-> 0, f0 |-> 0, f1 |-> 1, f2 |-> 2, A0 |-> 0, A1 |-> 1]

\* a call of something that is not callable, or with the wrong number of
\* arguments, has been evaluated
CallRejected ==
    /\ mode = "unit"
    /\ pc = "done"
    /\ inputs.unit = "call"
    /\ \/ inputs.callee \notin DOMAIN ExpectedArity
       \/ ExpectedArity[inputs.callee] # inputs.n

\* C11: when the callee is not callable, or the number of arguments differs
\* from the callee's arity, visitCallExpr raises a runtime error that cites
\* the closing parenthesis, and the call itself runs nothing: the
\* interpreter is as the evaluation of the arguments left it (no statement
\* of a body executed, no initializer run, no instance created).
C11_RejectedCallRunsNothing ==
    CallRejected =>
        /\ obs.exc.name = "RuntimeError"
        /\ obs.exc.token = expr.paren
        /\ interpreter = Interpreter_method("evaluateAll", obs.from, expr.args, <<>>).st
        /\ interpreter.instances = obs.from.instances
        /\ \A i \in 1..Len(interpreter.trace) :
              interpreter.trace[i].ev = "call" => interpreter.trace[i].name = "f0"
        /\ ~inputs.nested => interpreter = obs.from

\* a class with an initializer was called with too many arguments, one of
\* them a call that ran
C11_Witness ==
    /\ CallRejected
    /\ inputs.callee = "A1"
    /\ inputs.n = 2
    /\ inputs.nested
    /\ interpreter.output = <<"body">>

NumberKeys == {"zero", "one", "half"}

StringKeys == {"text", "empty"}

\* a binary expression of one of the eight operators has been evaluated
BinaryEvaluated == mode = "unit" /\ pc = "done" /\ inputs.unit = "binary"

\* C12: - * / > >= < <= yield a result exactly when both operands are
\* numbers, + exactly when both are numbers or both are strings; every
\* other pair of operand values (a string with a number included) raises a
\* runtime error that carries the operator's token, and changes nothing.
C12_OperandTypesDecide ==
    BinaryEvaluated =>
        LET numbers == inputs.left \in NumberKeys /\ inputs.right \in NumberKeys
            strings == inputs.left \in StringKeys /\ inputs.right \in StringKeys
        IN IF numbers \/ (inputs.operator = "Plus" /\ strings)
           THEN /\ obs.exc = NoError
                /\ obs.val.t = IF strings THEN "str"
                               ELSE IF inputs.operator \in {"Minus", "Star", "Slash", "Plus"}
                               THEN "num" ELSE "bool"
           ELSE /\ obs.exc.name = "RuntimeError"
                /\ obs.exc.token = expr.operator
                /\ interpreter = obs.from

\* a string was added to a number
C12_Witness ==
    /\ BinaryEvaluated
    /\ inputs.operator = "Plus"
    /\ inputs.left = "text"
    /\ inputs.right = "one"
    /\ obs.exc.name = "RuntimeError"

\* `l() and r()` or `l() or r()` has been evaluated, where l prints "l" and
\* returns the left operand value and r prints "r" and returns the right one
LogicalEvaluated == mode = "unit" /\ pc = "done" /\ inputs.unit = "logical"

\* the calls of the function `name` that were made
CallsOf(name) ==
    {i \in 1..Len(interpreter.trace) :
        interpreter.trace[i].ev = "call" /\ interpreter.trace[i].name = name}

\* C13: the left operand of and/or is evaluated exactly once; when it is
\* falsy (nil or false) under `and`, or truthy under `or`, the right operand
\* is not evaluated and the result is the left operand's own value; in
\* every other case the right operand is evaluated and its value is the
\* result.
C13_ShortCircuit ==
    LogicalEvaluated =>
        LET falsy == inputs.left \in {"nil", "false"}
            decided == IF inputs.operator = "And" THEN falsy ELSE ~falsy
        IN /\ obs.exc = NoError
           /\ Cardinality(CallsOf("l")) = 1
           /\ IF decided
              THEN /\ CallsOf("r") = {}
                   /\ interpreter.output = <<"l">>
                   /\ obs.val = Values[inputs.left]
              ELSE /\ Cardinality(CallsOf("r")) = 1
                   /\ interpreter.output = <<"l", "r">>
                   /\ obs.val = Values[inputs.right]

\* `0 or r()`: zero is truthy, r is not called and the result is the number
C13_Witness ==
    /\ LogicalEvaluated
    /\ inputs.operator = "Or"
    /\ inputs.left = "zero"
    /\ inputs.right = "text"
    /\ obs.val = Num(0)
    /\ interpreter.output = <<"l">>

\* the level of each binary operator, lowest first: assignment, or, and,
\* equality, comparison, term, factor
Level ==
    [Equal |-> 1, Or |-> 2, And |-> 3, EqualEqual |-> 4, Less |-> 5, Plus |-> 6,
     Minus |-> 6, Star |-> 7, Slash |-> 7]

\* a tree without the identities of its nodes
RECURSIVE Shape(_)
Shape(e) ==
    CASE e.type \in {"Binary", "Logical"} ->
            [e EXCEPT !.left = Shape(e.left), !.right = Shape(e.right)]
      [] e.type = "Grouping" -> [e EXCEPT !.expression = Shape(e.expression)]
      [] e.type = "Unary" -> [e EXCEPT !.right = Shape(e.right)]
      [] e.type = "Call" ->
            [e EXCEPT !.callee = Shape(e.callee),
                      !.args = [i \in 1..Len(e.args) |-> Shape(e.args[i])]]
      [] e.type = "Variable" -> [e EXCEPT !.id = 0]
      [] e.type = "Assign" -> [e EXCEPT !.value = Shape(e.value), !.id = 0]
      [] OTHER -> e

OperatorToken(type) == Token(type, ExprOperators[type], Nil, 1)

\* no tree
Invalid == [type |-> "Invalid"]

\* what the precedence levels say of operand (operator operand)*: the tree
\* splits at the operator that binds least, the rightmost such operator when
\* the level associates to the left and the leftmost one for assignment,
\* whose left side must be a name; Invalid when it is not
RECURSIVE Precedence(_, _)
Precedence(operands, operators) ==
    IF operators = <<>> THEN operands[1]
    ELSE LET n == Len(operators)
             lowest == CHOOSE l \in 1..7 :
                          /\ \E i \in 1..n : Level[operators[i]] = l
                          /\ \A i \in 1..n : Level[operators[i]] >= l
             among == {i \in 1..n : Level[operators[i]] = lowest}
             at == CHOOSE i \in among :
                      \A j \in among : IF lowest = 1 THEN i <= j ELSE i >= j
             left == Precedence(SubSeq(operands, 1, at), SubSeq(operators, 1, at - 1))
             right == Precedence(SubSeq(operands, at + 1, n + 1),
                                 SubSeq(operators, at + 1, n))
         IN IF left = Invalid \/ right = Invalid THEN Invalid
            ELSE IF lowest = 1
            THEN IF left.type = "Variable" THEN AssignExpr(left.name, right, 0)
                 ELSE Invalid
            ELSE IF lowest \in {2, 3}
            THEN LogicalExpr(left, OperatorToken(operators[at]), right)
            ELSE BinaryExpr(left, OperatorToken(operators[at]), right)

\* the tree of the operand at position i: a unary operator applies to
\* the call, the call to the name or number
OperandTree(case, i) ==
    LET x == IF i <= case.names
             THEN VariableExpr(Identifier(<<"a", "b">>[i]), 0)
             ELSE LiteralExpr(Num(i + 1))
        call == CallExpr(x, Token("RightParen", ")", Nil, 1), <<>>)
    IN IF case.at # i THEN x
       ELSE CASE case.form = "minus" -> UnaryExpr(Token("Minus", "-", Nil, 1), x)
              [] case.form = "bang" -> UnaryExpr(Token("Bang", "!", Nil, 1), x)
              [] case.form = "call" -> call
              [] case.form = "minuscall" -> UnaryExpr(Token("Minus", "-", Nil, 1), call)
              [] case.form = "group" -> x

\* the tree of an expression case: the parenthesised pair is one operand
ExpectedTree(case) ==
    LET n == Len(case.operators)
        trees == [i \in 1..(n + 1) |-> OperandTree(case, i)]
        g == case.at
        inner == Precedence(SubSeq(trees, g, g + 1), SubSeq(case.operators, g, g))
    IN IF case.form # "group" THEN Precedence(trees, case.operators)
       ELSE IF inner = Invalid THEN Invalid
       ELSE Precedence(SubSeq(trees, 1, g - 1) \o <<GroupingExpr(inner)>>
                           \o SubSeq(trees, g + 2, n + 1),
                       SubSeq(case.operators, 1, g - 1) \o SubSeq(case.operators, g + 1, n))

\* Parser.expression has been applied to the tokens of an expression case
ExpressionParsed == mode = "unit" /\ inputs.unit = "expression" /\ pc # "parse"

\* C14: Parser.expression builds the tree in which an operator of a higher
\* level binds tighter than one of a lower level (assignment, or, and,
\* equality, comparison, term, factor, unary, call, primary), the binary
\* operators of one level associate to the left and assignment to the right;
\* a text the levels give no tree to is reported as a syntax error.  So
\* 2 + 3 * 4 evaluates to 14 and (2 + 3) * 4 to 20.
C14_PrecedenceAndAssociativity ==
    ExpressionParsed =>
        /\ thrown = NoError
        /\ obs.at = Len(tokens) - 1
        /\ IF ExpectedTree(inputs) = Invalid THEN reporter.hadSyntaxError
           ELSE /\ ~reporter.hadSyntaxError
                /\ Shape(expr) = ExpectedTree(inputs)
        /\ pc = "done" /\ source = "2 + 3 * 4" => obs.val = Num(14)
        /\ pc = "done" /\ source = "(2 + 3) * 4" => obs.val = Num(20)

\* an assignment of a difference of three operands: a = ((3 - 4) - 5)
C14_Witness ==
    /\ ExpressionParsed
    /\ pc = "done"
    /\ source = "a = 3 - 4 - 5"
    /\ obs.val = Num(-6)
    /\ Shape(expr).value.left.type = "Binary"

\* a class has been called with as many arguments as its arity
ClassCalled ==
    /\ mode = "unit"
    /\ pc = "done"
    /\ inputs.unit = "call"
    /\ inputs.callee \in {"A0", "A1"}
    /\ inputs.n = ExpectedArity[inputs.callee]

\* C15: calling a class with as many arguments as its arity creates one new
\* instance with an empty field mapping, then, when the class defines init,
\* binds it to that instance and calls it with the arguments; the value of
\* the call is the new instance, whatever init returns (the init of A1 ends
\* in `return;`), and the arity of the class is that of init, or 0 without.
C15_ClassCallMakesInstance ==
    ClassCalled =>
        LET old == Len(obs.from.instances)
            klass == Values[inputs.callee]
            inits == CallsOf("init")
            argument == IF inputs.nested THEN Nil ELSE Num(1)
        IN /\ obs.exc = NoError
           /\ Len(interpreter.instances) = old + 1
           /\ SubSeq(interpreter.instances, 1, old) = obs.from.instances
           /\ obs.val = InstanceRef(old + 1)
           /\ interpreter.instances[old + 1].klass = klass
           /\ LoxCallable_arity(klass) =
                 (IF "init" \in DOMAIN klass.methods
                  THEN Len(klass.methods["init"].declaration.params) ELSE 0)
           /\ IF inputs.callee = "A0"
              THEN /\ interpreter.instances[old + 1].fields = EmptyMap
                   /\ inits = {}
              ELSE /\ interpreter.instances[old + 1].fields = Put(EmptyMap, "field", argument)
                   /\ Cardinality(inits) = 1
                   /\ interpreter.output[Len(interpreter.output)] = "init"
                   /\ \E i \in 1..Len(interpreter.trace) :
                         /\ interpreter.trace[i].ev = "left"
                         /\ interpreter.trace[i].isInitializer
                         /\ interpreter.trace[i].how = "return"
                         /\ interpreter.trace[i].this = obs.val

\* A1(1): init ran on the new instance and set its field
C15_Witness ==
    /\ ClassCalled
    /\ inputs.callee = "A1"
    /\ ~inputs.nested
    /\ obs.val = InstanceRef(2)
    /\ interpreter.instances[2].fields = Put(EmptyMap, "field", Num(1))
    /\ interpreter.output = <<"init">>

\* findMethod has been applied to a chain of classes
MethodSought == mode = "unit" /\ pc = "done" /\ inputs.unit = "findMethod"

\* C16: findMethod returns the method defined by the most derived class of
\* the chain that defines the name, so a superclass is consulted only when no
\* class below it defines the name, and null only when no class of the chain
\* defines it.
C16_MostDerivedMethod ==
    MethodSought =>
        LET defining == {i \in 1..Len(inputs.chain) : inputs.name \in inputs.chain[i]}
        IN IF defining = {} THEN obs.val = Null
           ELSE obs.val = MethodOf(CHOOSE i \in defining : \A j \in defining : i <= j,
                                   inputs.name)

\* the second class of three overrides the third, the first defines nothing
C16_Witness ==
    /\ MethodSought
    /\ inputs.chain = <<{}, {"m"}, {"m", "n"}>>
    /\ inputs.name = "m"
    /\ obs.val = MethodOf(2, "m")

\* the errors of one kind that have been reported
Reported(message) ==
    {i \in 1..Len(reporter.log) : reporter.log[i].message = message}

\* Runner.run has gone past the resolver on a script
Resolved == mode = "script" /\ pc \in {"interpret", "return", "exited"}

\* C17: in every local scope (a block, a function body, blocks inside
\* them) a declaration whose initializer reads the variable being declared
\* is reported by the resolver as a resolving error and nothing of the
\* program is executed (the interpreter is as it was made, but for the
\* resolver's side table); at global scope the resolver reports nothing.
C17_SelfInitializer ==
    \A scope \in Scopes, text \in SelfInitializers :
        mode = "script" /\ source = Enclose(scope, text) =>
            LET errors == Reported("Can't read local variable in its own initializer")
            IN IF scope = "global"
               THEN /\ reporter.hadSyntaxError = FALSE
                    /\ errors = {}
                    /\ pc = "exited" => interpreter.output = <<"1">>
               ELSE /\ [interpreter EXCEPT !.locals = EmptyMap] = Interpreter_new
                    /\ Resolved =>
                          /\ Cardinality(errors) = 1
                          /\ \A i \in errors : reporter.log[i].name = "ResolvingError"
                          /\ reporter.hadSyntaxError
                          /\ pc # "interpret"

\* var a = a; in a block inside a function body: reported, exit code 65
C17_Witness ==
    /\ mode = "script"
    /\ source = Enclose("nested", "var a = a;")
    /\ pc = "exited"
    /\ exitCode = <<65>>
    /\ Reported("Can't read local variable in its own initializer") # {}
    /\ interpreter.output = <<>>

\* C18: the resolver reports a redeclaration exactly when a variable,
\* function or parameter name is declared a second time in the same local
\* scope, the parameters and the body of a function being one scope; a name
\* that only an enclosing scope holds, and a redeclaration at global scope,
\* report nothing.
C18_Redeclaration ==
    \A scope \in Scopes, d \in Declarations :
        Resolved /\ source = Enclose(scope, d.text) =>
            LET errors == Reported("Already variable with this name in this scope")
            IN /\ Cardinality(errors) = d.inner + (IF scope = "global" THEN 0 ELSE d.same)
               /\ \A i \in errors : reporter.log[i].name = "ResolvingError"
               /\ errors = 1..Len(reporter.log)

\* three declarations of a in a function body: the second and the third are
\* reported
C18_Witness ==
    /\ Resolved
    /\ source = Enclose("function", "var a; var a; var a;")
    /\ Cardinality(Reported("Already variable with this name in this scope")) = 2
    /\ pc = "exited"
    /\ exitCode = <<65>>

\* an assignment to a global name has been evaluated
AssignEvaluated == mode = "unit" /\ pc = "done" /\ inputs.unit = "assign"

\* C19: assigning to a name that has no resolved distance and no binding in
\* the global environment raises an 'Undefined variable' runtime error and
\* leaves the global environment unchanged: the name has no binding
\* afterwards.  (A name the globals hold is assigned, for contrast.)
C19_AssignUndefined ==
    AssignEvaluated =>
        /\ expr.id \notin DOMAIN obs.from.locals
        /\ IF inputs.name \in DOMAIN obs.from.envs[Globals].values
           THEN /\ obs.exc = NoError
                /\ obs.val = Values[inputs.value]
                /\ interpreter.envs[Globals].values[inputs.name] = Values[inputs.value]
           ELSE /\ obs.exc = RuntimeError("Undefined variable 'u'", expr.name)
                /\ interpreter.envs = obs.from.envs
                /\ inputs.name \notin DOMAIN interpreter.envs[Globals].values

\* u = 1 was refused
C19_Witness ==
    /\ AssignEvaluated
    /\ inputs.name = "u"
    /\ inputs.value = "one"
    /\ obs.exc.name = "RuntimeError"
    /\ "u" \notin DOMAIN interpreter.envs[Globals].values

\* the kind of error each of these lines makes as the first line of a
\* session: a scan error, a parse error, a resolving error, a runtime error
ErrorLines ==
    [scan |-> "@", parse |-> "print a", resolve |-> "return 1;",
     run |-> "print x; print 2; 1"]

\* the REPL has handled line number n and waits for the next one
Handled(n) == mode = "repl" /\ pc = "ready" /\ lineNo = n

\* C20: in the REPL, after the handling of every line the syntax-error and
\* runtime-error flags are both false, whatever happened on that line (a
\* scan, parse, resolving or runtime error, each of which sets a flag before
\* the handler ends); so a well-formed line after it is parsed, resolved and
\* executed: `var a = 3; a + 3` defines a and prints 6 and reports nothing.
C20_ReplClearsFlags ==
    /\ mode = "repl" /\ pc = "ready" =>
          ~reporter.hadSyntaxError /\ ~reporter.hadRuntimeError
    /\ \A kind \in DOMAIN ErrorLines :
          mode = "repl" /\ pc = "return" /\ obs.lines = <<ErrorLines[kind]>> =>
              /\ Len(reporter.log) = 1
              /\ reporter.log[1].name =
                    (CASE kind = "resolve" -> "ResolvingError"
                       [] kind = "run" -> "RuntimeError"
                       [] OTHER -> "SyntaxError")
              /\ IF kind = "run" THEN reporter.hadRuntimeError
                 ELSE reporter.hadSyntaxError
    /\ \A n \in 1..MaxLines :
          Handled(n) /\ obs.lines[n] = "var a = 3; a + 3" =>
              /\ Len(reporter.log) = obs.log
              /\ interpreter.output = Append(obs.before.output, "6")
              /\ interpreter.envs[Globals].values["a"] = Num(3)

\* a runtime error on the first line, and the second line is executed
C20_Witness ==
    /\ Handled(2)
    /\ obs.lines = <<"print x; print 2; 1", "var a = 3; a + 3">>
    /\ reporter.log # <<>>
    /\ ~reporter.hadRuntimeError
    /\ interpreter.output[Len(interpreter.output)] = "6"

\* the number of calls of f that a text of ScopePrograms makes
ScopeCalls(text) ==
    IF text = ScopeProgram THEN 1
    ELSE IF text = "var a = \"global\"; { fun f(){ print a; } f(); var a = \"local\"; f(); f(); }"
    THEN 3
    ELSE 2

\* C2: a function whose body reads a name that no enclosing local scope
\* has declared where the function is defined reads the global binding at
\* every later call, also after an enclosing block or function body has
\* declared a local of that name: every line such a program prints is
\* `global`, once for each call of the function.
C2_DefinitionScope ==
    mode = "script" /\ source \in ScopePrograms =>
        /\ \A i \in 1..Len(interpreter.output) : interpreter.output[i] = "global"
        /\ reporter.log = <<>>
        /\ pc = "exited" =>
              /\ exitCode = <<0>>
              /\ Len(interpreter.output) = ScopeCalls(source)

\* ScopeProgram has run and printed global
C2_Witness ==
    /\ mode = "script"
    /\ source = ScopeProgram
    /\ pc = "exited"
    /\ interpreter.output = <<"global">>

\* C3: the closure that makeCounter returns keeps the variable of the
\* factory's scope between calls: CounterProgram, which calls it twice,
\* ends without a runtime error having printed 1 and 2, and every prefix
\* of its output is a prefix of <<"1", "2">>.
C3_CounterKeepsVariable ==
    mode = "script" /\ source = CounterProgram =>
        /\ ~reporter.hadRuntimeError
        /\ Len(interpreter.output) <= 2
        /\ \A i \in 1..Len(interpreter.output) :
              interpreter.output[i] = ToString(i)
        /\ pc = "exited" => interpreter.output = <<"1", "2">> /\ exitCode = <<0>>

\* C4: a text with an unrecognized character or an unterminated string is
\* still scanned to its end: once scanning of the text is over, scanTokens
\* has returned a token sequence that ends with the EOF token (and, for
\* "var a = 1; @ print a;", the tokens of `print a;` that follow the
\* offending character are among them).
C4_ScanningContinues ==
    /\ pc \notin {"ready", "scan"}
    /\ source \in {"var a = 1; @ print a;", "print \"abc", "@"}
    => /\ obs.scan.err = NoError
       /\ tokens = obs.scan.tokens
       /\ tokens # <<>>
       /\ tokens[Len(tokens)].type = "EOF"
       /\ source = "var a = 1; @ print a;" =>
             \E i \in 1..Len(tokens) : tokens[i].type = "Print"

\* Parser.parse has run on the tokens of a script
Parsed ==
    /\ mode = "script"
    /\ source \notin ClassPrograms
    /\ tokens # <<>>
    /\ \/ pc = "resolve"
       \/ /\ pc = "return"
          /\ reporter.log # <<>>
          /\ \A i \in 1..Len(reporter.log) : reporter.log[i].name = "SyntaxError"

\* the cursor positions (tokens consumed) from `first` on at which a
\* statement boundary lies: the end of the input, the position of a keyword
\* that begins a statement, the position just after a semicolon that lies
\* at or after `discarded`
Boundaries(first, discarded) ==
    {j \in first..(Len(tokens) - 1) :
        \/ tokens[j + 1].type = "EOF"
        \/ tokens[j + 1].type \in SyncKeywords
        \/ j > discarded /\ tokens[j].type = "Semicolon"}

Least(S) == CHOOSE j \in S : \A k \in S : j <= k

FailedSpans == {i \in 1..Len(obs.parse.spans) : ~obs.parse.spans[i].ok}

\* declaration() called with the cursor where iteration i of parse began
DeclarationAt(i) ==
    Parser_rule("declaration",
        [Parser_new(tokens, ErrorReporter_new, lineNo)
             EXCEPT !.current = obs.parse.spans[i].from], Null)

\* what the first n iterations of parse report: the reports made inside
\* declaration() without a throw, then the error it threw
RECURSIVE ParseLog(_)
ParseLog(n) ==
    IF n = 0 THEN <<>>
    ELSE LET d == DeclarationAt(n) IN
         ParseLog(n - 1) \o d.p.reporter.log
             \o (IF d.err = NoError THEN <<>> ELSE <<d.err>>)

\* the statements returned before iteration i of the loop of parse
ParsedBefore(i) == Cardinality({k \in 1..(i - 1) : obs.parse.spans[k].ok})

\* what both readings of the recovery share: every failure is reported
\* once, the iterations of the loop cover the tokens in order up to EOF,
\* an iteration fails only if declaration() fails where it starts, the
\* statements returned are those of the other iterations in order, and the
\* runner's catch block is not reached from parse
RecoveryResumes ==
    LET spans == obs.parse.spans IN
    /\ reporter.log = ParseLog(Len(spans))
    /\ \A i \in 1..Len(spans) :
          LET d == DeclarationAt(i)
          IN /\ spans[i].from = (IF i = 1 THEN 0 ELSE spans[i - 1].to)
             /\ spans[i].ok = (d.err = NoError)
             /\ spans[i].at = d.p.current
             /\ spans[i].ok =>
                   /\ spans[i].to = spans[i].at
                   /\ statements[ParsedBefore(i) + 1] = d.node
    /\ obs.parse.at = Len(tokens) - 1
    /\ spans # <<>> => spans[Len(spans)].to = Len(tokens) - 1
    /\ Len(statements) = Len(spans) - Cardinality(FailedSpans)
    /\ thrown = NoError

\* C5 as stated: after a failure the tokens are discarded up to the next
\* statement boundary at or after the token at which parsing failed (just
\* after a semicolon among the discarded tokens, just before a keyword that
\* begins a statement, or the end of the input), so that a well-formed
\* statement that begins with the failing keyword is kept.
C5_OneDiscardedStatement ==
    Parsed =>
        /\ RecoveryResumes
        /\ \A i \in FailedSpans :
              obs.parse.spans[i].to =
                  Least(Boundaries(obs.parse.spans[i].at, obs.parse.spans[i].at))

\* C5: in Parser.parse every failure of declaration() is reported once;
\* the token at which it failed is discarded whatever it is (unless it is
\* EOF) and so are the tokens up to the first statement boundary after it
\* (just after a semicolon, the failing token included, just before a
\* class/fun/var/for/if/while/print/return keyword, or the end of input);
\* parsing resumes there, the well-formed declarations met from there on
\* are returned in order, and parse does not throw.
C5_PanicModeRecovery ==
    Parsed =>
        /\ RecoveryResumes
        /\ \A i \in FailedSpans :
              LET at == obs.parse.spans[i].at
                  first == IF at + 1 < Len(tokens) THEN at + 1 ELSE at
              IN obs.parse.spans[i].to = Least(Boundaries(first, at))

\* `1 print a ;`: the missing semicolon is met at `print`, which is
\* discarded with the rest of the well-formed statement it begins
C5_Witness ==
    /\ Parsed
    /\ source = "1 print a ;"
    /\ obs.parse.spans = <<[ok |-> FALSE, from |-> 0, at |-> 1, to |-> 4]>>
    /\ statements = <<>>
    /\ Len(reporter.log) = 1

\* `= print a ;`: the statement after the failing token is kept
C5_KeptStatement ==
    /\ Parsed
    /\ source = "= print a ;"
    /\ Len(statements) = 1

\* parseRepl has run on the tokens of the current REPL line
ReplParsed ==
    /\ mode = "repl"
    /\ pc \notin {"ready", "scan", "parse", "exited"}
    /\ obs.scan.err = NoError
    /\ tokens # <<>>
    /\ tokens = obs.scan.tokens

\* the parser of the current line with its cursor at position at
ParserAt(at) ==
    [Parser_new(tokens, ErrorReporter_new, lineNo) EXCEPT !.current = at]

\* C6: parseRepl returns exactly the declarations that parse completely
\* one after the other from the first token on; when one fails, the
\* trailing expression (or the error thrown for it) is that of expression()
\* called at the token right after the last complete declaration; when
\* none fails up to EOF, all declarations are returned and no expression.
C6_ReplRewinds ==
    ReplParsed =>
        LET spans == obs.parse.spans
            cursor == IF spans = <<>> THEN 0 ELSE spans[Len(spans)].to
        IN /\ Len(statements) = Len(spans)
           /\ \A i \in 1..Len(spans) :
                 /\ spans[i].ok
                 /\ spans[i].from = (IF i = 1 THEN 0 ELSE spans[i - 1].to)
                 /\ DeclarationAt(i).err = NoError
                 /\ DeclarationAt(i).node = statements[i]
                 /\ DeclarationAt(i).p.current = spans[i].to
           /\ obs.parse.cursor = cursor
           /\ IF obs.parse.failed
              THEN /\ ~Parser_isAtEnd(ParserAt(cursor))
                   /\ Parser_rule("declaration", ParserAt(cursor), Null).err # NoError
                   /\ expr = Parser_rule("expression", ParserAt(cursor), Null).node
                   /\ obs.parse.err = Parser_rule("expression", ParserAt(cursor), Null).err
                   /\ obs.parse.at = Parser_rule("expression", ParserAt(cursor), Null).p.current
              ELSE /\ Parser_isAtEnd(ParserAt(cursor))
                   /\ expr = Null
                   /\ obs.parse.err = NoError

\* `1 ; a 1`: the statement that begins at `a` fails at the second `1`
\* and a is returned as the trailing expression, parsed again from the
\* token `a`
C6_Witness ==
    /\ ReplParsed
    /\ source = "1 ; a 1"
    /\ obs.parse.failed
    /\ obs.parse.cursor = 2
    /\ Len(statements) = 1
    /\ expr # Null
    /\ expr.type = "Variable"
    /\ obs.parse.at = 3

\* C7: parseRepl never returns normally while tokens other than EOF remain
\* unconsumed: when it has returned (nothing was thrown to Runner.run), the
\* cursor is at the EOF token.
C7_RemainderIsAnError ==
    ReplParsed /\ obs.parse.err = NoError =>
        obs.parse.at = Len(tokens) - 1

\* C8: whenever the REPL evaluates the trailing expression of a line, all
\* the statements of that line have been executed before it, in order and
\* to their end, and the value is printed; a global defined on one line is
\* read on the next: after `var a = 3; a + 3` and `a + 25` the output is
\* 6 and 28.
C8_StatementsBeforeExpression ==
    /\ mode = "repl" =>
          \A k \in 1..Len(obs.calls) :
              obs.calls[k].target = "expr" =>
                  /\ Len(statements) > 0 =>
                        /\ k = 2
                        /\ obs.calls[1].target = "statements"
                        /\ obs.calls[1].ran = Len(statements)
                        /\ obs.calls[1].caught = NoError
                  /\ Len(statements) = 0 => k = 1
                  /\ pc = "return" /\ obs.calls[k].exc = NoError =>
                        Len(interpreter.output) = Len(obs.calls[k].from.output) + 1
    /\ Handled(2) /\ obs.lines = <<"var a = 3; a + 3", "a + 25">> =>
          interpreter.output = <<"6", "28">>

\* Interpreter.interpret has just returned from a statement list
Interpreted ==
    /\ obs.calls # <<>>
    /\ obs.calls[Len(obs.calls)].target = "statements"
    /\ pc \in {"return", "expr"}

\* the interpreter after the first n statements of the list, run one by
\* one from the interpreter state s
RECURSIVE AfterStatements(_, _)
AfterStatements(s, n) ==
    IF n = 0 THEN [st |-> s, exc |-> NoError]
    ELSE LET before == AfterStatements(s, n - 1) IN
         IF before.exc # NoError THEN before
         ELSE Interpreter_method("execute", before.st, statements[n], Null)

\* C9: when a statement of the list given to Interpreter.interpret raises
\* a runtime error, no later statement of the list is executed, exactly
\* one error, that runtime error, is reported and hadRuntimeError is true,
\* and interpret returns normally to Runner.run.
C9_StopsAtFirstRuntimeError ==
    Interpreted =>
        LET call == obs.calls[Len(obs.calls)] IN
        /\ call.exc = NoError
        /\ thrown = NoError
        /\ call.caught = NoError =>
              /\ call.ran = Len(statements)
              /\ Len(reporter.log) = call.log
        /\ call.caught # NoError =>
              /\ call.ran \in 1..Len(statements)
              /\ AfterStatements(call.from, call.ran - 1).exc = NoError
              /\ AfterStatements(call.from, call.ran).exc = call.caught
              /\ AfterStatements(call.from, call.ran).st = interpreter
              /\ Len(reporter.log) = call.log + 1
              /\ reporter.log[Len(reporter.log)] = call.caught
              /\ call.caught.name = "RuntimeError" => reporter.hadRuntimeError
        /\ source = "print 1; print x; print 2;" =>
              /\ call.ran = 2
              /\ call.caught.name = "RuntimeError"
              /\ interpreter.output = <<"1">>
        /\ source = "print 7 / 2; print -nil; print 3;" =>
              /\ call.ran = 2
              /\ call.caught.name = "RuntimeError"
              /\ Len(interpreter.output) = 1

\* the second of three statements has raised a runtime error
C9_Witness ==
    /\ Interpreted
    /\ source = "print 1; print x; print 2;"
    /\ obs.calls[1].ran = 2
    /\ reporter.hadRuntimeError
    /\ Len(reporter.log) = 1
    /\ interpreter.output = <<"1">>

\* the events that calls and return statements have left in the trace
Events(kind) ==
    {i \in 1..Len(interpreter.trace) : interpreter.trace[i].ev = kind}

\* C10: a return statement, at whatever block depth of the body, ends the
\* innermost active call and no other: the event after the return is that
\* call being left, at the same call depth, with the carried value, or with
\* the instance bound as `this` when the function is an initializer; a
\* body that falls off its end yields nil (the instance for an initializer);
\* the calls further out go on: ReturnProgram prints nil, nil and 2, and
\* ClassProgram prints the instance.
C10_ReturnEndsInnermostCall ==
    LET trace == interpreter.trace IN
    /\ \A i \in Events("return") :
          /\ i < Len(trace)
          /\ trace[i + 1].ev = "left"
          /\ trace[i + 1].how = "return"
          /\ trace[i + 1].depth = trace[i].depth
          /\ trace[i + 1].value =
                (IF trace[i + 1].isInitializer THEN trace[i + 1].this
                 ELSE trace[i].value)
    /\ \A j \in Events("left") :
          /\ trace[j].isInitializer /\ trace[j].how # "throw" =>
                trace[j].value = trace[j].this /\ trace[j].this.t = "instance"
          /\ ~trace[j].isInitializer /\ trace[j].how = "end" => trace[j].value = Nil
          /\ trace[j].how = "return" => j - 1 \in Events("return")
    /\ mode = "script" /\ pc = "exited" /\ source = ReturnProgram =>
          /\ interpreter.output = <<"nil", "nil", "2">>
          /\ reporter.log = <<>>
          /\ Cardinality(Events("return")) = 3
          /\ Cardinality(Events("left")) = 5
    /\ mode = "script" /\ pc = "exited" /\ source = ClassProgram =>
          /\ interpreter.output = <<"<instance of class A>">>
          /\ reporter.log = <<>>
          /\ Cardinality(Events("return")) = 2

\* ReturnProgram has run: h(1) has gone on after the return in f(1), from
\* inside a block in an if in a while, and has printed 2
C10_Witness ==
    /\ mode = "script"
    /\ source = ReturnProgram
    /\ pc = "exited"
    /\ interpreter.output = <<"nil", "nil", "2">>
    /\ \E i \in Events("return") :
          interpreter.trace[i].depth = 2 /\ interpreter.trace[i].value = Num(1)

\* the environments that bind name to value
Binding(name, value) ==
    {e \in 1..Len(interpreter.envs) :
        /\ In(name, interpreter.envs[e].values)
        /\ Lookup(interpreter.envs[e].values, name) = value}

\* C21: an assignment to a local that the resolver placed 0, 1 or 2 scopes
\* out writes the value into that scope's environment and into no other,
\* and completes without a runtime error, so that the statements after it
\* run and read the new value: each text of AssignPrograms ends with no
\* error reported, a bound to 2 in the first block's environment only, and
\* 2 printed by every print.
C21_AssignAtDistance ==
    mode = "script" /\ source \in AssignPrograms /\ pc \in {"return", "exited"} =>
        /\ reporter.log = <<>>
        /\ ~reporter.hadRuntimeError
        /\ Binding("a", Num(2)) = {2}
        /\ Binding("a", Num(1)) = {}
        /\ Len(interpreter.output) >= 1
        /\ \A i \in 1..Len(interpreter.output) : interpreter.output[i] = "2"

\* C22: for a name declared in an inner and in an outer local scope the
\* side-table holds the distance of the inner one: after the resolver has
\* run on a text of ShadowPrograms, the one reference of the text has the
\* distance 0 (read in the declaring scope) or 1 (read one scope further
\* in), and the program prints the inner value 2.
C22_InnermostScopeWins ==
    mode = "script" /\ source \in ShadowPrograms /\ pc \in {"interpret", "return", "exited"} =>
        /\ reporter.log = <<>>
        /\ Cardinality(DOMAIN interpreter.locals) = 1
        /\ \A id \in DOMAIN interpreter.locals :
              interpreter.locals[id] =
                  (IF source = "{ var a = 1; { var a = 2; print a; } }" THEN 0 ELSE 1)
        /\ pc # "interpret" => interpreter.output = <<"2">>

\* executeBlock called on the statements of block in a new environment
\* enclosed by the active one, from the interpreter as it is
BlockRun(block) ==
    LET st == Environment_new(interpreter, interpreter.environment) IN
    Interpreter_method("executeBlock", st, block, Len(st.envs))

\* the blocks at the top level of the program, a block that only returns
\* and a block that only reads an undefined variable
BlocksTried ==
    {statements[i].statements :
        i \in {k \in 1..Len(statements) : statements[k].type = "Block"}}
    \cup {<<ReturnStmt(Identifier("return"), Null)>>,
          <<BlockStmt(<<PrintStmt(VariableExpr(Identifier("undefined"), [run |-> 0, at |-> 0]))>>)>>}

\* C23: executeBlock leaves the active environment as it was before the
\* call, whether the block ends normally, with a return signal or with a
\* runtime error; and between the steps of Runner.run, so after every
\* interpret call, also one ended by a runtime error inside nested blocks
\* and calls, the active environment is the global one.
C23_EnvironmentRestored ==
    /\ interpreter.environment = Globals
    /\ interpreter.depth = 0
    /\ pc = "interpret" =>
          \A block \in BlocksTried :
              /\ BlockRun(block).st.environment = interpreter.environment
              /\ block = <<ReturnStmt(Identifier("return"), Null)>> =>
                    BlockRun(block).exc.name = "Return"
              /\ block = <<BlockStmt(<<PrintStmt(VariableExpr(Identifier("undefined"), [run |-> 0, at |-> 0]))>>)>> =>
                    BlockRun(block).exc.name = "RuntimeError"

\* DeepErrorProgram has ended in the runtime error raised two blocks deep
\* in the call of f made two blocks deep
C23_Witness ==
    /\ mode = "script"
    /\ source = DeepErrorProgram
    /\ pc = "return"
    /\ reporter.hadRuntimeError
    /\ Len(interpreter.envs) = 5
    /\ interpreter.output = <<>>
    /\ interpreter.environment = Globals

\* C24: every read made through the side-table finds its environment and
\* finds the name bound in it: for each getAt call of a run the ancestor
\* at the recorded distance exists and holds the name, in blocks, function
\* calls and bound methods, for variables, parameters and `this`; and the
\* distances of the side-table are natural numbers.
C24_ResolvedReadsAreBound ==
    /\ \A i \in Events("getAt") :
          /\ interpreter.trace[i].ancestor # 0
          /\ interpreter.trace[i].bound
    /\ \A id \in DOMAIN interpreter.locals : interpreter.locals[id] \in Nat

\* ThisProgram has printed the instance that the bound method read as
\* `this`, one environment out from the method's body
C24_Witness ==
    /\ mode = "script"
    /\ source = ThisProgram
    /\ pc = "exited"
    /\ interpreter.output = <<"<instance of class A>">>
    /\ \E i \in Events("getAt") :
          /\ interpreter.trace[i].name = "this"
          /\ interpreter.trace[i].distance = 1
          /\ interpreter.trace[i].bound

\* C25: a Return signal is never reported and never reaches the catch of
\* Interpreter.interpret or of Runner.run: in scripts and in the REPL no
\* entry of the log, no error caught by an interpret call, no error leaving
\* one and no error thrown to the runner is a Return; a text with a return
\* outside a function does not pass the resolver, so it is never run.
C25_ReturnIsNeverReported ==
    /\ \A i \in 1..Len(reporter.log) : reporter.log[i].name # "Return"
    /\ thrown.name # "Return"
    /\ \A k \in 1..Len(obs.calls) :
          /\ obs.calls[k].caught.name # "Return"
          /\ obs.calls[k].exc.name # "Return"
    /\ source \in {"print 1; return 1;", "return 1;"} =>
          interpreter.trace = obs.before.trace

\* the REPL has called a function whose return statement carried the
\* global defined on the line before
C25_Witness ==
    /\ Handled(2)
    /\ obs.lines = <<"var a = 3; a + 3", "fun f() { return a; } f()">>
    /\ interpreter.output = <<"6", "3">>
    /\ reporter.log = <<>>
    /\ \E i \in Events("return") : interpreter.trace[i].value = Num(3)

(***************************************************************************)
(* The resolver applied to drawn declarations.  A case is the list of      *)
(* declarations nested in each other, outermost first, and what follows    *)
(* the nested declaration at every level: a tree as the constructors of    *)
(* ast.ts build it, with a block, a function, a class with one method or   *)
(* initializer, a subclass and a class naming itself as its superclass.    *)
(***************************************************************************)

MaxNesting == 3

Wrappers == {"block", "fun", "class", "init", "subclass", "selfclass"}

Probes == {"none", "return", "this", "super", "redeclare", "all"}

ResolverCases ==
    {[nest |-> nest, probe |-> probe] :
        nest \in UNION {[1..n -> Wrappers] : n \in 0..MaxNesting}, probe \in Probes}

NestedId(level, k) == [run |-> 0, at |-> 10 * level + k]

\* return;  print this;  print super.m;  var b; var b;
ProbesAt(level, probe) ==
    (IF probe \in {"return", "all"}
     THEN <<ReturnStmt(Token("Return", "return", Nil, 1), Null)>> ELSE <<>>)
    \o (IF probe \in {"this", "all"}
        THEN <<PrintStmt(ThisExpr(Token("This", "this", Nil, 1), NestedId(level, 1)))>>
        ELSE <<>>)
    \o (IF probe \in {"super", "all"}
        THEN <<PrintStmt(SuperExpr(Token("Super", "super", Nil, 1), Identifier("m"),
                                   NestedId(level, 2)))>>
        ELSE <<>>)
    \o (IF probe \in {"redeclare", "all"}
        THEN <<VarStmt(Identifier("b"), Null), VarStmt(Identifier("b"), Null)>>
        ELSE <<>>)

\* { body }  fun f() { body }  class A { m() { body } }  class A { init() { body } }
\* class B < A { m() { body } }  class A < A { m() { body } }
Wrap(kind, level, body) ==
    CASE kind = "block" -> BlockStmt(body)
      [] kind = "fun" -> FunctionStmt(Identifier("f"), <<>>, body)
      [] kind = "class" ->
            ClassStmt(Identifier("A"), Null, <<FunctionStmt(Identifier("m"), <<>>, body)>>)
      [] kind = "init" ->
            ClassStmt(Identifier("A"), Null,
                      <<FunctionStmt(Identifier("init"), <<>>, body)>>)
      [] kind = "subclass" ->
            ClassStmt(Identifier("B"), VariableExpr(Identifier("A"), NestedId(level, 3)),
                      <<FunctionStmt(Identifier("m"), <<>>, body)>>)
      [] kind = "selfclass" ->
            ClassStmt(Identifier("A"), VariableExpr(Identifier("A"), NestedId(level, 3)),
                      <<FunctionStmt(Identifier("m"), <<>>, body)>>)

RECURSIVE Nest(_, _, _)
Nest(nest, level, probe) ==
    IF level < Len(nest)
    THEN <<Wrap(nest[level + 1], level, Nest(nest, level + 1, probe))>>
         \o ProbesAt(level, probe)
    ELSE ProbesAt(level, probe)

InitResolver ==
    /\ inputs \in ResolverCases
    /\ mode = "script"
    /\ pc = "resolve"
    /\ lineNo = 1
    /\ source = ""
    /\ tokens = <<>>
    /\ statements = Nest(inputs.nest, 0, inputs.probe)
    /\ expr = Null
    /\ thrown = NoError
    /\ reporter = ErrorReporter_new
    /\ interpreter = Interpreter_new
    /\ resolver = Resolver_new
    /\ exitCode = <<>>
    /\ obs = [lines |-> <<>>, before |-> Interpreter_new, log |-> 0,
              scan |-> [err |-> NoError, tokens |-> <<>>],
              parse |-> [spans |-> <<>>, cursor |-> 0, failed |-> FALSE,
                         err |-> NoError, at |-> 0],
              resolve |-> <<>>, calls |-> <<>>]

SpecResolver == InitResolver /\ [][Resolve]_vars

\* the resolver has gone through the drawn tree
ResolverDone == mode = "script" /\ pc \in {"interpret", "return"}

\* the levels of the drawn tree, 0 the top, that only wrappers of a kind enclose
LevelsWithin(kinds) ==
    {i \in 0..Len(inputs.nest) : \A j \in 1..i : inputs.nest[j] \in kinds}

\* C26: when the resolver leaves a function declaration, a method or a class
\* declaration, currentFunction and currentClass are what they were on entry,
\* at every nesting depth and whatever was reported inside; so the resolver
\* ends with both at None, a return after a declaration is reported exactly
\* at the levels no function encloses, and a this after a declaration
\* exactly at the levels no class encloses
C26_StateRestored ==
    ResolverDone =>
        /\ \A i \in DOMAIN obs.resolve :
             obs.resolve[i].node \in {"Function", "Method", "Class"} =>
                /\ obs.resolve[i].after.currentFunction
                     = obs.resolve[i].before.currentFunction
                /\ obs.resolve[i].after.currentClass = obs.resolve[i].before.currentClass
        /\ resolver.currentFunction = "None"
        /\ resolver.currentClass = "None"
        /\ inputs.probe \in {"return", "all"} =>
             Cardinality(Reported("Can't return from top-level code"))
               = Cardinality(LevelsWithin({"block"}))
        /\ inputs.probe \in {"this", "all"} =>
             Cardinality(Reported("Can't use 'this' outside of a class"))
               = Cardinality(LevelsWithin({"block", "fun"}))

\* a function in a method of a class in a function has been resolved, with
\* errors reported inside the class, and the return and the this that follow
\* the outermost declaration at top level have been reported
C26_Witness ==
    /\ ResolverDone
    /\ inputs = [nest |-> <<"fun", "class", "fun">>, probe |-> "all"]
    /\ \E i \in DOMAIN obs.resolve :
         /\ obs.resolve[i].node = "Class"
         /\ obs.resolve[i].before.currentFunction = "Function"
         /\ obs.resolve[i].after.log > obs.resolve[i].before.log
    /\ \E i \in DOMAIN obs.resolve :
         /\ obs.resolve[i].node = "Function"
         /\ obs.resolve[i].before.currentFunction = "Method"
         /\ obs.resolve[i].before.currentClass = "Class"
    /\ Cardinality(Reported("Can't return from top-level code")) = 1
    /\ Cardinality(Reported("Can't use 'this' outside of a class")) = 2

StatementNodes ==
    {"Expression", "PrintStmt", "Var", "Block", "If", "While", "Function", "Return",
     "Class"}

\* C28: the scope stack is balanced: every statement the resolver has
\* visited left the stack at the depth it found it, whatever was reported
\* inside, and after the whole program the stack is empty
C28_ScopeStackBalanced ==
    ResolverDone =>
        /\ \A i \in DOMAIN obs.resolve :
             obs.resolve[i].node \in StatementNodes =>
                obs.resolve[i].after.depth = obs.resolve[i].before.depth
        /\ resolver.scopes = <<>>

\* a statement without the identities of its nodes
RECURSIVE Unlabelled(_)
Unlabelled(s) ==
    CASE s.type = "Block" ->
            [s EXCEPT !.statements = [i \in 1..Len(s.statements) |->
                                         Unlabelled(s.statements[i])]]
      [] s.type = "While" ->
            [s EXCEPT !.condition = Shape(s.condition), !.body = Unlabelled(s.body)]
      [] s.type = "If" ->
            [s EXCEPT !.condition = Shape(s.condition),
                      !.thenBranch = Unlabelled(s.thenBranch),
                      !.elseBranch = Unlabelled(s.elseBranch)]
      [] s.type \in {"PrintStmt", "Expression"} ->
            [s EXCEPT !.expression = Shape(s.expression)]
      [] s.type = "Var" -> [s EXCEPT !.initializer = Shape(s.initializer)]
      [] s.type = "Return" -> [s EXCEPT !.value = Shape(s.value)]
      [] OTHER -> s

\* what the parser's rule makes of a text on its own
PartOf(rule, text) ==
    Parser_rule(rule, Parser_new(Scanner_scanTokens(text).tokens, ErrorReporter_new, 1),
                Null).node

\* the loop that the clauses of a case describe
ForExpected(case) ==
    LET body == Unlabelled(PartOf("statement", case.body))
        incremented ==
            IF case.increment # ""
            THEN BlockStmt(<<body,
                             ExpressionStmt(Shape(PartOf("expression", case.increment)))>>)
            ELSE body
        loop == WhileStmt(IF case.condition = "" THEN LiteralExpr(Bool(TRUE))
                          ELSE Shape(PartOf("expression", case.condition)),
                          incremented)
    IN IF case.initializer # ""
       THEN BlockStmt(<<Unlabelled(PartOf("declaration", case.initializer)), loop>>)
       ELSE loop

\* the statement the parser made of the for loop of a case
ForTree(case) ==
    LET at == IF case.before = "" THEN 1 ELSE 2
    IN IF case.inFunction THEN statements[at].body[1] ELSE statements[at]

DeclaresLoopVariable(case) == substring(case.initializer, 0, 3) = "var"

\* C27: forStatement gives a while loop whose condition is the condition
\* clause, or the literal true when it is omitted, and whose body is the
\* body followed by the increment as an expression statement when there is
\* an increment; the loop is wrapped in a block that starts with the
\* initializer when there is one.  A variable the initializer declares is
\* local to that block: reads of it in the loop are resolved to the block's
\* scope, a read after the loop is not, and after the loop the name is
\* undefined, or is the global of that name, untouched.
C27_ForDesugaring ==
    \A case \in ForCases :
        mode = "script" /\ source = ForText(case)
        /\ pc \in {"resolve", "interpret", "return", "exited"} =>
            /\ reporter.hadSyntaxError = FALSE
            /\ Unlabelled(ForTree(case)) = ForExpected(case)
            /\ pc # "resolve" /\ DeclaresLoopVariable(case) =>
                 LET last == statements[Len(statements)].expression
                     loop == ForTree(case).statements[2]
                 IN /\ last.id \notin DOMAIN interpreter.locals
                    /\ case.condition # "" =>
                         /\ loop.condition.left.id \in DOMAIN interpreter.locals
                         /\ interpreter.locals[loop.condition.left.id] = 0
            /\ pc = "exited" /\ DeclaresLoopVariable(case) /\ case.increment = "" =>
                 IF case.before = ""
                 THEN /\ reporter.hadRuntimeError
                      /\ reporter.log
                           = <<RuntimeError("Undefined variable 'i'",
                                            statements[Len(statements)].expression.name)>>
                 ELSE /\ ~reporter.hadRuntimeError
                      /\ interpreter.output = <<"7">>

\* for (var i = 0; i < 0;) print i; print i; has been run: the loop is a
\* block of the declaration and a while loop, and the print after the loop
\* found no i
C27_Witness ==
    /\ mode = "script"
    /\ pc = "exited"
    /\ source = " for (var i = 0; i < 0; ) print i; print i;"
    /\ statements[1].type = "Block"
    /\ statements[1].statements[1].type = "Var"
    /\ statements[1].statements[2].type = "While"
    /\ statements[1].statements[2].body.type = "PrintStmt"
    /\ interpreter.output = <<>>
    /\ reporter.hadRuntimeError
    /\ exitCode = <<70>>

\* C29: in the REPL the trailing expression of a line is evaluated only when
\* every statement of the line completed without a runtime error: no
\* interpret call of a line follows one that caught a runtime error, so
\* the line `print x; print 2; 1` prints nothing.
C29_ExpressionOnlyAfterSuccess ==
    mode = "repl" =>
        /\ \A k \in 1..Len(obs.calls) :
              obs.calls[k].target = "statements" /\ obs.calls[k].caught # NoError =>
                  k = Len(obs.calls)
        /\ Handled(1) /\ obs.lines = <<"print x; print 2; 1">> =>
              interpreter.output = <<>>

\* Parser.parse has returned on the tokens of a script
ParseReturned ==
    /\ mode = "script"
    /\ source \notin ClassPrograms
    /\ tokens # <<>>
    /\ pc \in {"resolve", "interpret", "return", "exited"}

\* C30: Parser.parse comes to an end on every token list that ends with
\* EOF: the iterations of its loop take up consecutive stretches of the
\* tokens, each of at least one token, also one that ends in synchronize;
\* the cursor is never past the EOF token, and is on it when parse returns.
C30_ParseTerminates ==
    ParseReturned =>
        LET spans == obs.parse.spans
            EOF == Len(tokens) - 1
        IN /\ tokens[Len(tokens)].type = "EOF"
           /\ \A i \in 1..Len(spans) :
                /\ spans[i].from = (IF i = 1 THEN 0 ELSE spans[i - 1].to)
                /\ spans[i].from < spans[i].to
                /\ spans[i].from <= spans[i].at
                /\ spans[i].at <= spans[i].to
                /\ spans[i].to <= EOF
           /\ Len(spans) <= EOF
           /\ obs.parse.at = EOF
           /\ spans # <<>> => spans[Len(spans)].to = EOF

\* a text whose two iterations of the loop both fail: the first ends in
\* synchronize before print, the second at EOF
C30_Witness ==
    /\ ParseReturned
    /\ source = "} = print"
    /\ obs.parse.spans = <<[ok |-> FALSE, from |-> 0, at |-> 0, to |-> 2],
                           [ok |-> FALSE, from |-> 2, at |-> 3, to |-> 3]>>
    /\ obs.parse.at = 3

====
